---------------------------- MODULE Spec2Model ----------------------------
(***************************************************************************)
(* A model of the ingestion pipeline of the ads analysis dashboard:        *)
(*   - the CSV record parser (parseCSVToRecords, parseCsv),                *)
(*   - tab discovery (fetchSheetTabs, validateSheetUrl, GET                *)
(*     /api/sheets-tabs) and ingestion (fetchDataFromSource).              *)
(* Texts are TLA+ strings; a character is a string of length 1.            *)
(***************************************************************************)
EXTENDS Integers, Sequences, FiniteSets, TLC

(***************************************************************************)
(* Bounds of the model.                                                    *)
(***************************************************************************)
\* longest free part of a CSV text the parser is run on
MaxLen == 4

(***************************************************************************)
(* Strings.                                                                *)
(***************************************************************************)
\* what indexing past the end of a string yields
undefined == "undefined"

\* csvText[i] with a 0-based index i
CharAt(s, i) == IF i >= 0 /\ i < Len(s) THEN SubSeq(s, i + 1, i + 1) ELSE undefined

\* the characters String.prototype.trim removes (those that occur in the model)
WhiteSpace == {" ", "\t", "\n", "\r", "\f"}

RECURSIVE TrimStart(_)
TrimStart(s) ==
    IF Len(s) > 0 /\ CharAt(s, 0) \in WhiteSpace
    THEN TrimStart(SubSeq(s, 2, Len(s)))
    ELSE s

RECURSIVE TrimEnd(_)
TrimEnd(s) ==
    IF Len(s) > 0 /\ CharAt(s, Len(s) - 1) \in WhiteSpace
    THEN TrimEnd(SubSeq(s, 1, Len(s) - 1))
    ELSE s

\* s.trim()
Trim(s) == TrimEnd(TrimStart(s))

\* the truthiness of a string: '' is falsy
Truthy(s) == s # ""

\* record.some(f => f.trim())
SomeNonBlank(record) == \E k \in 1..Len(record) : Truthy(Trim(record[k]))

\* record.filter(v => v.trim()).length
RECURSIVE NonEmptyCount(_)
NonEmptyCount(record) ==
    IF record = <<>> THEN 0
    ELSE (IF Truthy(Trim(Head(record))) THEN 1 ELSE 0) + NonEmptyCount(Tail(record))

\* all strings over alphabet of length at most n
RECURSIVE StringsUpTo(_, _)
StringsUpTo(alphabet, n) ==
    IF n = 0 THEN {""}
    ELSE LET S == StringsUpTo(alphabet, n - 1)
         IN  S \cup {s \o c : s \in S, c \in alphabet}

(***************************************************************************)
(* parseCSVToRecords: one iteration of the character loop, as a function   *)
(* of the loop's state st = [i, inQuotes, currentField, currentRecord,     *)
(* records].                                                               *)
(***************************************************************************)
\* EndRecord without the blank-record test
EndRecordKeepsBlank(st) ==
    [st EXCEPT !.records = Append(@, Append(st.currentRecord, st.currentField)),
               !.currentRecord = <<>>,
               !.currentField = ""]

\* the record is complete: push the field, keep the record unless blank
EndRecord(st) ==
    LET full == Append(st.currentRecord, st.currentField)
    IN  [st EXCEPT !.records = IF SomeNonBlank(full) THEN Append(@, full) ELSE @,
                   !.currentRecord = <<>>,
                   !.currentField = ""]

\* QuotedChar with a comma inside quotes taken as the field separator
QuotedCharCommaSplits(st, char, nextChar) ==
    IF char = "\""
    THEN IF nextChar = "\""
         THEN [st EXCEPT !.currentField = @ \o "\"", !.i = @ + 1]
         ELSE [st EXCEPT !.inQuotes = FALSE]
    ELSE IF char = ","
    THEN [st EXCEPT !.currentRecord = Append(@, st.currentField), !.currentField = ""]
    ELSE [st EXCEPT !.currentField = @ \o char]

\* QuotedChar with a doubled quote kept as two quotes
QuotedCharKeepsBothQuotes(st, char, nextChar) ==
    IF char = "\""
    THEN IF nextChar = "\""
         THEN [st EXCEPT !.currentField = @ \o "\"\"", !.i = @ + 1]
         ELSE [st EXCEPT !.inQuotes = FALSE]
    ELSE [st EXCEPT !.currentField = @ \o char]

\* the branch taken while inQuotes
QuotedChar(st, char, nextChar) ==
    IF char = "\""
    THEN IF nextChar = "\""
         THEN [st EXCEPT !.currentField = @ \o "\"", !.i = @ + 1]
         ELSE [st EXCEPT !.inQuotes = FALSE]
    ELSE [st EXCEPT !.currentField = @ \o char]

\* UnquotedChar with every carriage return ending the record
UnquotedCharEveryCrEnds(st, char, nextChar) ==
    IF char = "\"" THEN [st EXCEPT !.inQuotes = TRUE]
    ELSE IF char = ","
    THEN [st EXCEPT !.currentRecord = Append(@, st.currentField), !.currentField = ""]
    ELSE IF char = "\r" \/ char = "\n" THEN EndRecord(st)
    ELSE [st EXCEPT !.currentField = @ \o char]

\* the branch taken outside quotes
UnquotedChar(st, char, nextChar) ==
    IF char = "\"" THEN [st EXCEPT !.inQuotes = TRUE]
    ELSE IF char = ","
    THEN [st EXCEPT !.currentRecord = Append(@, st.currentField), !.currentField = ""]
    ELSE IF char = "\r"
    THEN IF nextChar = "\n" THEN st ELSE EndRecord(st)
    ELSE IF char = "\n" THEN EndRecord(st)
    ELSE [st EXCEPT !.currentField = @ \o char]

\* the body of the for loop followed by its i++
ParseChar(csvText, st) ==
    LET char == CharAt(csvText, st.i)
        nextChar == CharAt(csvText, st.i + 1)
        after == IF st.inQuotes THEN QuotedChar(st, char, nextChar)
                 ELSE UnquotedChar(st, char, nextChar)
    IN  [after EXCEPT !.i = @ + 1]

\* the state before the loop
ParseStart ==
    [i |-> 0, inQuotes |-> FALSE, currentField |-> "", currentRecord |-> <<>>,
     records |-> <<>>]

\* after the loop: the last field and record
LastRecord(st) ==
    LET full == Append(st.currentRecord, st.currentField)
    IN  [st EXCEPT !.currentRecord = full,
                   !.records = IF SomeNonBlank(full) THEN Append(@, full) ELSE @]

RECURSIVE ParseLoop(_, _)
ParseLoop(csvText, st) ==
    IF st.i < Len(csvText) THEN ParseLoop(csvText, ParseChar(csvText, st)) ELSE st

parseCSVToRecords(csvText) == LastRecord(ParseLoop(csvText, ParseStart)).records

(***************************************************************************)
(* parseCsv: header detection and row materialization.  A SheetRow is the  *)
(* sequence of its [key, value] entries in insertion order; a value is a   *)
(* string or a number m / 10^e.                                            *)
(***************************************************************************)
Str(s) == [t |-> "str", s |-> s, m |-> 0, e |-> 0]
Num(m, e) == [t |-> "num", s |-> "", m |-> m, e |-> e]

Min(a, b) == IF a < b THEN a ELSE b

UpperCase == <<"A", "B", "C", "D", "E", "F", "G", "H", "I", "J", "K", "L", "M",
               "N", "O", "P", "Q", "R", "S", "T", "U", "V", "W", "X", "Y", "Z">>
LowerCase == <<"a", "b", "c", "d", "e", "f", "g", "h", "i", "j", "k", "l", "m",
               "n", "o", "p", "q", "r", "s", "t", "u", "v", "w", "x", "y", "z">>

LowerChar(c) ==
    IF \E k \in 1..26 : UpperCase[k] = c
    THEN LowerCase[CHOOSE k \in 1..26 : UpperCase[k] = c]
    ELSE c

\* s.toLowerCase()
RECURSIVE ToLowerCase(_)
ToLowerCase(s) ==
    IF s = "" THEN "" ELSE LowerChar(CharAt(s, 0)) \o ToLowerCase(SubSeq(s, 2, Len(s)))

\* s.includes(sub)
Includes(s, sub) ==
    \E k \in 1..(Len(s) - Len(sub) + 1) : SubSeq(s, k, k + Len(sub) - 1) = sub

\* s.replace(/[...]/g, '') for a class of characters
RECURSIVE RemoveChars(_, _)
RemoveChars(s, class) ==
    IF s = "" THEN ""
    ELSE (IF CharAt(s, 0) \in class THEN "" ELSE CharAt(s, 0))
         \o RemoveChars(SubSeq(s, 2, Len(s)), class)

Digits == <<"0", "1", "2", "3", "4", "5", "6", "7", "8", "9">>
IsDigit(c) == \E k \in 1..10 : Digits[k] = c
DigitValue(c) == (CHOOSE k \in 1..10 : Digits[k] = c) - 1
AllDigits(s) == \A k \in 1..Len(s) : IsDigit(SubSeq(s, k, k))

\* the index (1-based) of the first "." of s, or 0
DotAt(s) ==
    IF \E k \in 1..Len(s) : SubSeq(s, k, k) = "."
    THEN CHOOSE k \in 1..Len(s) :
            SubSeq(s, k, k) = "." /\ \A j \in 1..(k - 1) : SubSeq(s, j, j) # "."
    ELSE 0

\* /^-?\d+\.?\d*$/.test(s)
IsNumeric(s) ==
    LET body == IF Len(s) > 0 /\ CharAt(s, 0) = "-" THEN SubSeq(s, 2, Len(s)) ELSE s
        dot == DotAt(body)
        whole == IF dot = 0 THEN body ELSE SubSeq(body, 1, dot - 1)
        frac == IF dot = 0 THEN "" ELSE SubSeq(body, dot + 1, Len(body))
    IN  Len(whole) >= 1 /\ AllDigits(whole) /\ AllDigits(frac)

RECURSIVE DigitsToNat(_)
DigitsToNat(s) ==
    IF s = "" THEN 0
    ELSE 10 * DigitsToNat(SubSeq(s, 1, Len(s) - 1)) + DigitValue(CharAt(s, Len(s) - 1))

RECURSIVE StripZeros(_)
StripZeros(s) ==
    IF Len(s) > 0 /\ CharAt(s, Len(s) - 1) = "0" THEN StripZeros(SubSeq(s, 1, Len(s) - 1))
    ELSE s

\* parseFloat(s) for an s that IsNumeric: the number m / 10^e, e minimal
ParseFloat(s) ==
    LET neg == Len(s) > 0 /\ CharAt(s, 0) = "-"
        body == IF neg THEN SubSeq(s, 2, Len(s)) ELSE s
        dot == DotAt(body)
        whole == IF dot = 0 THEN body ELSE SubSeq(body, 1, dot - 1)
        frac == StripZeros(IF dot = 0 THEN "" ELSE SubSeq(body, dot + 1, Len(body)))
        mag == DigitsToNat(whole \o frac)
    IN  Num(IF neg THEN 0 - mag ELSE mag, Len(frac))

\* row[key] = value
SetKey(row, key, value) ==
    IF \E k \in 1..Len(row) : row[k].key = key
    THEN [k \in 1..Len(row) |->
            IF row[k].key = key THEN [key |-> key, value |-> value] ELSE row[k]]
    ELSE Append(row, [key |-> key, value |-> value])

\* Object.keys(row)
ObjectKeys(row) == [k \in 1..Len(row) |-> row[k].key]

\* a header search that scans every record
HeaderIndexOfAnyRecord(records) ==
    LET scanned == 0..(Len(records) - 1)
        hit(i) == NonEmptyCount(records[i + 1]) >= 3
    IN  IF \E i \in scanned : hit(i)
        THEN CHOOSE i \in scanned : hit(i) /\ \A j \in scanned : j < i => ~hit(j)
        ELSE 0 - 1

\* the index of the header row among the first 10 records, or -1
HeaderIndex(records) ==
    LET scanned == 0..(Min(10, Len(records)) - 1)
        hit(i) == NonEmptyCount(records[i + 1]) >= 3
    IN  IF \E i \in scanned : hit(i)
        THEN CHOOSE i \in scanned : hit(i) /\ \A j \in scanned : j < i => ~hit(j)
        ELSE 0 - 1

IsDateColumn(header) ==
    LET headerLower == ToLowerCase(header)
    IN  \/ Includes(headerLower, "date")
        \/ headerLower = "month"
        \/ headerLower = "day"
        \/ Includes(headerLower, "_date")

\* a materialization that tries every column as a number, date columns too
CellValueOfAnyColumn(header, value) ==
    LET trimmedValue == Trim(value)
        cleanValue == RemoveChars(trimmedValue, {"₹", "$", ","})
    IN  IF IsNumeric(cleanValue) /\ cleanValue # "" THEN ParseFloat(cleanValue)
        ELSE Str(value)

\* the value stored under header for the field at its position
CellValue(header, value) ==
    LET trimmedValue == Trim(value)
        cleanValue == RemoveChars(trimmedValue, {"₹", "$", ","})
    IN  IF IsDateColumn(header) THEN Str(trimmedValue)
        ELSE IF IsNumeric(cleanValue) /\ cleanValue # "" THEN ParseFloat(cleanValue)
        ELSE Str(value)

\* headers.forEach((header, index) => ...) from position k on
RECURSIVE FillRow(_, _, _, _)
FillRow(row, headers, values, k) ==
    IF k > Len(headers) THEN row
    ELSE LET header == headers[k]
             value == IF k <= Len(values) /\ Truthy(values[k]) THEN values[k] ELSE ""
         IN  FillRow(IF ~Truthy(Trim(header)) THEN row
                     ELSE SetKey(row, header, CellValue(header, value)),
                     headers, values, k + 1)

\* the indices (0-based) of the records the data-row loop keeps, from i on
RECURSIVE DataRowIndices(_, _)
DataRowIndices(records, i) ==
    IF i >= Len(records) THEN <<>>
    ELSE (IF NonEmptyCount(records[i + 1]) < 2 THEN <<>> ELSE <<i>>)
         \o DataRowIndices(records, i + 1)

\* the number of non-blank values a row holds: numbers, and strings with
\* more than whitespace
NonBlankValueCount(row) ==
    Cardinality({k \in 1..Len(row) :
                    row[k].value.t = "num" \/ Truthy(Trim(row[k].value.s))})

\* a data-row loop that drops a row holding fewer than 2 non-blank values
DataRowsDroppingBlankRows(records, headers, headerIndex) ==
    LET kept == DataRowIndices(records, headerIndex + 1)
        filled == [k \in 1..Len(kept) |-> FillRow(<<>>, headers, records[kept[k] + 1], 1)]
    IN  SelectSeq(filled, LAMBDA row : NonBlankValueCount(row) >= 2)

\* the data-row loop of parseCsv
DataRows(records, headers, headerIndex) ==
    LET kept == DataRowIndices(records, headerIndex + 1)
    IN  [k \in 1..Len(kept) |-> FillRow(<<>>, headers, records[kept[k] + 1], 1)]

\* a parseCsv that takes the first record as the header when its scan of the
\* first 10 records finds none
RowsOfRecordsHeaderOptional(records) ==
    IF Len(records) < 2 THEN <<>>
    ELSE LET headerIndex == HeaderIndex(records)
         IN  IF headerIndex < 0 THEN DataRows(records, records[1], 0)
             ELSE DataRows(records, records[headerIndex + 1], headerIndex)

\* parseCsv after its call of parseCSVToRecords
RowsOfRecords(records) ==
    IF Len(records) < 2 THEN <<>>
    ELSE LET headerIndex == HeaderIndex(records)
         IN  IF headerIndex < 0 THEN <<>>
             ELSE DataRows(records, records[headerIndex + 1], headerIndex)

parseCsv(csvText) == RowsOfRecords(parseCSVToRecords(csvText))

(***************************************************************************)
(* transformToAdsData: the rows of a sheet as records of the internal kind.*)
(***************************************************************************)
\* COLUMN_MAPPINGS[lower], undefined for a key the table lacks
COLUMN_MAPPINGS(lower) ==
    CASE lower \in {"date", "metrics_date", "metrics date", "month", "ordered_date",
                    "report_date"} -> "metrics_date"
      [] lower \in {"campaign", "campaign_name", "campaign name", "product_name",
                    "ad_name", "ad name", "menu_name", "product", "item_name", "item",
                    "name"} -> "campaign_name"
      [] lower \in {"spends", "spend", "total_budget_burnt", "budget burnt",
                    "budget spent", "cost", "daily budget", "budget_burnt",
                    "total_spend", "total_spends", "amount_spent"} -> "total_budget_burnt"
      [] lower \in {"impressions", "total_impressions", "impr", "views",
                    "total_views"} -> "total_impressions"
      [] lower \in {"clicks", "total_clicks", "click"} -> "total_clicks"
      [] lower \in {"sales", "gmv", "total_gmv", "revenue", "total_direct_gmv_14_days",
                    "total_direct_gmv_7_days", "total_sales", "order_value",
                    "total_revenue"} -> "total_gmv"
      [] lower \in {"ctr", "total_ctr"} -> "total_ctr"
      [] lower \in {"roi", "roas", "total_roi", "total_direct_roi_14_days",
                    "total_direct_roi_7_days"} -> "total_roi"
      [] lower \in {"city", "location", "region"} -> "city"
      [] lower = "area_name" -> "area_name"
      [] lower \in {"brand", "brand_name"} -> "brand"
      [] lower \in {"total_conversions", "conversions", "orders",
                    "total_orders"} -> "total_conversions"
      [] lower = "total_a2c" -> "total_a2c"
      [] lower \in {"units_sold", "quantity", "qty"} -> "units_sold"
      [] OTHER -> undefined

\* s.replace(/\s+/g, '_')
RECURSIVE ReplaceWhiteSpace(_)
ReplaceWhiteSpace(s) ==
    IF s = "" THEN ""
    ELSE IF CharAt(s, 0) \in WhiteSpace THEN "_" \o ReplaceWhiteSpace(TrimStart(s))
    ELSE CharAt(s, 0) \o ReplaceWhiteSpace(SubSeq(s, 2, Len(s)))

normalizeColumnName(name) ==
    LET lower == Trim(ToLowerCase(name))
    IN  IF COLUMN_MAPPINGS(lower) # undefined THEN COLUMN_MAPPINGS(lower)
        ELSE ReplaceWhiteSpace(lower)

\* s.padStart(2, '0')
PadStart2(s) == IF Len(s) = 0 THEN "00" ELSE IF Len(s) = 1 THEN "0" \o s ELSE s

\* s.split(/[\/\-]/)
RECURSIVE SplitDate(_)
SplitDate(s) ==
    IF \E k \in 1..Len(s) : SubSeq(s, k, k) \in {"/", "-"}
    THEN LET at == CHOOSE k \in 1..Len(s) :
                      /\ SubSeq(s, k, k) \in {"/", "-"}
                      /\ \A j \in 1..(k - 1) : SubSeq(s, j, j) \notin {"/", "-"}
         IN  <<SubSeq(s, 1, at - 1)>> \o SplitDate(SubSeq(s, at + 1, Len(s)))
    ELSE <<s>>

monthNames ==
    <<"jan", "feb", "mar", "apr", "may", "jun", "jul", "aug", "sep", "oct", "nov", "dec">>

IsLetter(c) == \E k \in 1..26 : c = LowerCase[k] \/ c = UpperCase[k]

\* dateStr.match(/^([A-Za-z]{3})-(\d{2})$/)
MonthMatch(dateStr) ==
    /\ Len(dateStr) = 6
    /\ \A k \in 1..3 : IsLetter(SubSeq(dateStr, k, k))
    /\ SubSeq(dateStr, 4, 4) = "-"
    /\ AllDigits(SubSeq(dateStr, 5, 6))

\* monthNames.indexOf(name), -1 when it is not there
MonthIndexOf(name) ==
    IF \E k \in 1..12 : monthNames[k] = name
    THEN (CHOOSE k \in 1..12 : monthNames[k] = name) - 1
    ELSE 0 - 1

DaysInMonth(year, month) ==
    IF month = 2
    THEN IF year % 4 = 0 /\ (year % 100 # 0 \/ year % 400 = 0) THEN 29 ELSE 28
    ELSE IF month \in {4, 6, 9, 11} THEN 30 ELSE 31

\* dateStr is a date of the form YYYY-MM-DD, which new Date reads as that day
\* at 00:00 UTC (the other forms the host may read are not among the texts
\* of the model)
IsIsoDate(dateStr) ==
    /\ Len(dateStr) = 10
    /\ AllDigits(SubSeq(dateStr, 1, 4))
    /\ SubSeq(dateStr, 5, 5) = "-"
    /\ AllDigits(SubSeq(dateStr, 6, 7))
    /\ SubSeq(dateStr, 8, 8) = "-"
    /\ AllDigits(SubSeq(dateStr, 9, 10))
    /\ DigitsToNat(SubSeq(dateStr, 6, 7)) \in 1..12
    /\ DigitsToNat(SubSeq(dateStr, 9, 10)) \in
          1..DaysInMonth(DigitsToNat(SubSeq(dateStr, 1, 4)),
                         DigitsToNat(SubSeq(dateStr, 6, 7)))

\* a formatDate that returns the empty text for what no rule reads
formatDateOrEmpty(dateStr) ==
    LET monthIndex == MonthIndexOf(ToLowerCase(SubSeq(dateStr, 1, 3)))
        parts == SplitDate(dateStr)
    IN  IF ~Truthy(dateStr) THEN ""
        ELSE IF MonthMatch(dateStr) /\ monthIndex # 0 - 1
        THEN ToString(DigitsToNat(SubSeq(dateStr, 5, 6)) + 2000) \o "-"
                \o PadStart2(ToString(monthIndex + 1)) \o "-01"
        ELSE IF IsIsoDate(dateStr) THEN dateStr
        ELSE IF Len(parts) = 3
        THEN IF Len(parts[1]) = 4
             THEN parts[1] \o "-" \o PadStart2(parts[2]) \o "-" \o PadStart2(parts[3])
             ELSE parts[3] \o "-" \o PadStart2(parts[2]) \o "-" \o PadStart2(parts[1])
        ELSE ""

formatDate(dateStr) ==
    LET monthIndex == MonthIndexOf(ToLowerCase(SubSeq(dateStr, 1, 3)))
        parts == SplitDate(dateStr)
    IN  IF ~Truthy(dateStr) THEN ""
        ELSE IF MonthMatch(dateStr) /\ monthIndex # 0 - 1
        THEN ToString(DigitsToNat(SubSeq(dateStr, 5, 6)) + 2000) \o "-"
                \o PadStart2(ToString(monthIndex + 1)) \o "-01"
        ELSE IF IsIsoDate(dateStr) THEN dateStr
        ELSE IF Len(parts) = 3
        THEN IF Len(parts[1]) = 4
             THEN parts[1] \o "-" \o PadStart2(parts[2]) \o "-" \o PadStart2(parts[3])
             ELSE parts[3] \o "-" \o PadStart2(parts[2]) \o "-" \o PadStart2(parts[1])
        ELSE dateStr

\* String(value) of a value of a row
RECURSIVE ZeroPad(_, _)
ZeroPad(s, n) == IF Len(s) >= n THEN s ELSE ZeroPad("0" \o s, n)

JsString(value) ==
    IF value.t = "str" THEN value.s
    ELSE LET mag == IF value.m < 0 THEN 0 - value.m ELSE value.m
             digits == ZeroPad(ToString(mag), value.e + 1)
             whole == SubSeq(digits, 1, Len(digits) - value.e)
             frac == SubSeq(digits, Len(digits) - value.e + 1, Len(digits))
         IN  (IF value.m < 0 THEN "-" ELSE "") \o whole
                \o (IF value.e > 0 THEN "." \o frac ELSE "")

\* Boolean(value) of a value of a row
JsBoolean(value) == IF value.t = "str" THEN value.s # "" ELSE value.m # 0

\* value > 0: a number as it is; a string is read as a number first, and the
\* strings parseCsv leaves as strings are read as NaN or 0 unless they are a
\* signed, pointed or exponent form of a decimal, or Infinity
HasNonZeroDigit(s) == \E k \in 1..Len(s) : SubSeq(s, k, k) \in {"1", "2", "3", "4", "5", "6", "7", "8", "9"}

IsDecimalLiteral(s) ==
    LET dot == DotAt(s)
        whole == IF dot = 0 THEN s ELSE SubSeq(s, 1, dot - 1)
        frac == IF dot = 0 THEN "" ELSE SubSeq(s, dot + 1, Len(s))
    IN  AllDigits(whole) /\ AllDigits(frac) /\ Len(whole) + Len(frac) >= 1

ExponentAt(s) ==
    IF \E k \in 1..Len(s) : SubSeq(s, k, k) \in {"e", "E"}
    THEN CHOOSE k \in 1..Len(s) : SubSeq(s, k, k) \in {"e", "E"}
            /\ \A j \in 1..(k - 1) : SubSeq(s, j, j) \notin {"e", "E"}
    ELSE 0

IsExponent(s) ==
    LET body == IF Len(s) > 0 /\ CharAt(s, 0) \in {"+", "-"} THEN SubSeq(s, 2, Len(s)) ELSE s
    IN  Len(body) >= 1 /\ AllDigits(body)

StringPositive(s) ==
    LET text == Trim(s)
        unsigned == IF Len(text) > 0 /\ CharAt(text, 0) = "+"
                    THEN SubSeq(text, 2, Len(text)) ELSE text
        ex == ExponentAt(unsigned)
        mantissa == IF ex = 0 THEN unsigned ELSE SubSeq(unsigned, 1, ex - 1)
    IN  \/ unsigned = "Infinity"
        \/ /\ IsDecimalLiteral(mantissa)
           /\ HasNonZeroDigit(mantissa)
           /\ ex # 0 => IsExponent(SubSeq(unsigned, ex + 1, Len(unsigned)))

GreaterThanZero(value) ==
    IF value.t = "num" THEN value.m > 0 ELSE StringPositive(value.s)

\* the keys of an AdsData record as transformToAdsData creates it
AdsKeys ==
    {"id", "platform", "metrics_date", "campaign_name", "total_budget_burnt",
     "total_impressions", "total_clicks", "total_gmv", "total_ctr", "total_roi"}

\* the record before the columns are mapped; now is Date.now()
NewAdsData(platform, index, now) ==
    [k \in AdsKeys |->
        CASE k = "id" -> Str(platform \o "-" \o ToString(index) \o "-" \o ToString(now))
          [] k = "platform" -> Str(platform)
          [] k \in {"metrics_date", "campaign_name"} -> Str("")
          [] OTHER -> Num(0, 0)]

\* a column loop in which the first column that resolves to a field wins
RECURSIVE MapColumnsFirstWriter(_, _, _)
MapColumnsFirstWriter(normalized, row, k) ==
    IF k > Len(row) THEN normalized
    ELSE LET normalizedKey == normalizeColumnName(row[k].key)
             rest == MapColumnsFirstWriter(normalized, row, k + 1)
         IN  IF normalizedKey \in DOMAIN normalized
             THEN [rest EXCEPT ![normalizedKey] = row[k].value]
             ELSE rest

\* Object.entries(row).forEach(...) from position k on
RECURSIVE MapColumns(_, _, _)
MapColumns(normalized, row, k) ==
    IF k > Len(row) THEN normalized
    ELSE LET normalizedKey == normalizeColumnName(row[k].key)
         IN  MapColumns(IF normalizedKey \in DOMAIN normalized
                        THEN [normalized EXCEPT ![normalizedKey] = row[k].value]
                        ELSE normalized,
                        row, k + 1)

\* the callback of rows.map
AdsDataOf(row, platform, index, now) ==
    LET normalized == MapColumns(NewAdsData(platform, index, now), row, 1)
    IN  IF JsBoolean(normalized["metrics_date"])
        THEN [normalized EXCEPT
                 !["metrics_date"] = Str(formatDate(JsString(normalized["metrics_date"])))]
        ELSE normalized

\* the callback of filter
KeepRow(row) ==
    LET hasNumericValue ==
            \/ GreaterThanZero(row["total_budget_burnt"])
            \/ GreaterThanZero(row["total_impressions"])
            \/ GreaterThanZero(row["total_clicks"])
            \/ GreaterThanZero(row["total_gmv"])
        hasCampaign == JsBoolean(row["campaign_name"])
    IN  hasNumericValue \/ hasCampaign

\* transformToAdsData(rows, platform); nows[k] is Date.now() at row k
transformToAdsData(rows, platform, nows) ==
    LET mapped == [k \in 1..Len(rows) |-> AdsDataOf(rows[k], platform, k - 1, nows[k])]
    IN  SelectSeq(mapped, KeepRow)

\* Ads-specific columns
adsIndicators ==
    <<"impressions", "clicks", "ctr", "cpi", "roi", "roas", "budget", "spend", "spends",
      "ad_name", "campaign", "budget_burnt">>

\* Sales-specific columns
salesIndicators ==
    <<"order_id", "order", "quantity", "units_sold", "sku", "product_name", "mrp",
      "discount", "net_amount">>

\* indicators.filter(ind => lowerHeaders.some(h => h.includes(ind))).length
Score(indicators, lowerHeaders) ==
    Len(SelectSeq(indicators,
                  LAMBDA ind : \E k \in 1..Len(lowerHeaders) : Includes(lowerHeaders[k], ind)))

\* a detection that resolves a tie to sales
detectDataTypeTieIsSales(headers) ==
    LET lowerHeaders == [k \in 1..Len(headers) |-> ToLowerCase(headers[k])]
    IN  IF Score(adsIndicators, lowerHeaders) > Score(salesIndicators, lowerHeaders)
        THEN "ads" ELSE "sales"

detectDataType(headers) ==
    LET lowerHeaders == [k \in 1..Len(headers) |-> ToLowerCase(headers[k])]
        adsScore == Score(adsIndicators, lowerHeaders)
        salesScore == Score(salesIndicators, lowerHeaders)
    IN  IF adsScore >= salesScore THEN "ads" ELSE "sales"

(***************************************************************************)
(* Aggregation (aggregation.ts).  A Date is its time value in minutes      *)
(* since 1970-01-01T00:00Z (every instant met is a whole minute); the      *)
(* host's zone is its getTimezoneOffset(), the same all year.  A ratio is  *)
(* a fraction n / d in lowest terms.                                       *)
(***************************************************************************)
MinutesPerDay == 1440

\* the days from 1970-01-01 to the day d of month m of year y
DaysFromCivil(y, m, d) ==
    LET yy == IF m <= 2 THEN y - 1 ELSE y
        era == yy \div 400
        yoe == yy - era * 400
        doy == (153 * (IF m > 2 THEN m - 3 ELSE m + 9) + 2) \div 5 + d - 1
        doe == yoe * 365 + yoe \div 4 - yoe \div 100 + doy
    IN  era * 146097 + doe - 719468

\* the year, month and day of the day that is z days after 1970-01-01
CivilFromDays(z) ==
    LET zz == z + 719468
        era == zz \div 146097
        doe == zz - era * 146097
        yoe == (doe - doe \div 1460 + doe \div 36524 - doe \div 146096) \div 365
        doy == doe - (365 * yoe + yoe \div 4 - yoe \div 100)
        mp == (5 * doy + 2) \div 153
        d == doy - (153 * mp + 2) \div 5 + 1
        m == IF mp < 10 THEN mp + 3 ELSE mp - 9
    IN  [year |-> yoe + era * 400 + (IF m <= 2 THEN 1 ELSE 0), month |-> m, day |-> d]

\* new Date(text) is an Invalid Date, its time value NaN: of the texts of
\* the metrics, the ones that are not a YYYY-MM-DD date
IsInvalidDate(text) == ~IsIsoDate(text)

\* new Date(text) of a YYYY-MM-DD text: that day at 00:00 UTC
NewDate(text) ==
    MinutesPerDay * DaysFromCivil(DigitsToNat(SubSeq(text, 1, 4)),
                                  DigitsToNat(SubSeq(text, 6, 7)),
                                  DigitsToNat(SubSeq(text, 9, 10)))

\* date.toISOString().split('T')[0]
IsoDay(time) ==
    LET civil == CivilFromDays(time \div MinutesPerDay)
    IN  ZeroPad(ToString(civil.year), 4) \o "-" \o PadStart2(ToString(civil.month))
           \o "-" \o PadStart2(ToString(civil.day))

\* the host's local calendar day of an instant, in days since 1970-01-01
LocalDay(time, offset) == (time - offset) \div MinutesPerDay

\* date.getDay() in the host's zone: 0 is Sunday (1970-01-01 was a Thursday)
GetDay(time, offset) == (LocalDay(time, offset) + 4) % 7

\* date.setDate(date.getDate() + days): the same local time, days later
SetDate(time, days) == time + days * MinutesPerDay

\* Number(value) || 0 of a field of a metric
NumberOrZero(value) ==
    IF value.t = "num" THEN value.m
    ELSE IF Trim(value.s) # "" /\ AllDigits(Trim(value.s)) THEN DigitsToNat(Trim(value.s))
    ELSE 0

Abs(n) == IF n < 0 THEN 0 - n ELSE n

RECURSIVE Gcd(_, _)
Gcd(a, b) == IF b = 0 THEN a ELSE Gcd(b, a % b)

\* n / d for d > 0
Ratio(n, d) ==
    LET g == Gcd(Abs(n), d)
    IN  [n |-> (IF n < 0 THEN 0 - (Abs(n) \div g) ELSE n \div g), d |-> d \div g]

Zero == [n |-> 0, d |-> 1]

calculateMetrics(data) ==
    [cpi |-> IF data.impressions > 0 THEN Ratio(data.spend, data.impressions) ELSE Zero,
     ctr |-> IF data.impressions > 0 THEN Ratio(data.clicks * 100, data.impressions) ELSE Zero,
     cpc |-> IF data.clicks > 0 THEN Ratio(data.spend, data.clicks) ELSE Zero,
     roas |-> IF data.spend > 0 THEN Ratio(data.sales, data.spend) ELSE Zero]

\* metrics.reduce(...) from position k on
RECURSIVE Totals(_, _, _)
Totals(acc, metrics, k) ==
    IF k > Len(metrics) THEN acc
    ELSE Totals([spend |-> acc.spend + NumberOrZero(metrics[k].total_spend),
                 impressions |-> acc.impressions + NumberOrZero(metrics[k].total_impressions),
                 clicks |-> acc.clicks + NumberOrZero(metrics[k].total_clicks),
                 sales |-> acc.sales + NumberOrZero(metrics[k].total_sales)],
                metrics, k + 1)

NoTotals == [spend |-> 0, impressions |-> 0, clicks |-> 0, sales |-> 0]

\* weekStart.toISOString() throws a RangeError: the date of the metric is
\* an Invalid Date, and so is weekStart
WeekKeyThrows(metric) == IsInvalidDate(metric.date)

\* the key of the week of a metric: lines 46 to 50 of aggregateToWeekly
WeekKey(metric, offset) ==
    LET date == NewDate(metric.date)
        dayOfWeek == GetDay(date, offset)
        weekStart == SetDate(date, 0 - dayOfWeek)
    IN  IsoDay(weekStart)

\* a grouping that keeps only the latest metric of a key
GroupPushLatest(groups, key, metric) ==
    IF \E k \in 1..Len(groups) : groups[k].key = key
    THEN [k \in 1..Len(groups) |->
            IF groups[k].key = key THEN [key |-> key, metrics |-> <<metric>>]
            ELSE groups[k]]
    ELSE Append(groups, [key |-> key, metrics |-> <<metric>>])

\* if (!by[key]) by[key] = []; by[key].push(metric), the entries of the
\* object kept in insertion order
GroupPush(groups, key, metric) ==
    IF \E k \in 1..Len(groups) : groups[k].key = key
    THEN [k \in 1..Len(groups) |->
            IF groups[k].key = key
            THEN [key |-> key, metrics |-> Append(groups[k].metrics, metric)]
            ELSE groups[k]]
    ELSE Append(groups, [key |-> key, metrics |-> <<metric>>])

\* totals of a bucket with the ratios of its last record
BucketTotalsOfLastRatios(metrics) ==
    LET totals == Totals(NoTotals, metrics, 1)
        derived == calculateMetrics(Totals(NoTotals, <<metrics[Len(metrics)]>>, 1))
    IN  [totalSpend |-> totals.spend, totalImpressions |-> totals.impressions,
         totalClicks |-> totals.clicks, totalSales |-> totals.sales,
         cpi |-> derived.cpi, ctr |-> derived.ctr, cpc |-> derived.cpc,
         roas |-> derived.roas]

\* the totals and ratios every bucket holds
BucketTotals(metrics) ==
    LET totals == Totals(NoTotals, metrics, 1)
        derived == calculateMetrics(totals)
    IN  [totalSpend |-> totals.spend, totalImpressions |-> totals.impressions,
         totalClicks |-> totals.clicks, totalSales |-> totals.sales,
         cpi |-> derived.cpi, ctr |-> derived.ctr, cpc |-> derived.cpc,
         roas |-> derived.roas]

\* the callback of Object.entries(byWeek).map
WeeklyBucket(group) ==
    LET weekEnd == SetDate(NewDate(group.key), 6)
    IN  [weekStart |-> group.key, weekEnd |-> IsoDay(weekEnd)]
           @@ BucketTotals(group.metrics)

\* (a, b) => new Date(a.start).getTime() - new Date(b.start).getTime(): a
\* NaN result counts as 0 in the sort
CompareStart(a, b) ==
    IF IsInvalidDate(a.start) \/ IsInvalidDate(b.start) THEN 0
    ELSE NewDate(a.start) - NewDate(b.start)

\* a sort that leaves the entries in the order of insertion
SortByStartKeepsOrder(list) == list

\* the order sort(...) puts the entries [start, bucket] in: a stable sort
RECURSIVE SortByStart(_)
SortByStart(list) ==
    IF Len(list) <= 1 THEN list
    ELSE LET last == list[Len(list)]
             front == SortByStart(SubSeq(list, 1, Len(list) - 1))
             before == SelectSeq(front, LAMBDA b : CompareStart(b, last) <= 0)
             after == SelectSeq(front, LAMBDA b : CompareStart(b, last) > 0)
         IN  before \o <<last>> \o after

\* the comparison orders the entries: it does not when an entry without a
\* date (equal to every entry) stands beside two entries with different dates
ConsistentOrder(list) ==
    \/ \A k \in 1..Len(list) : ~IsInvalidDate(list[k].start)
    \/ Cardinality({NewDate(list[k].start) :
                       k \in {j \in 1..Len(list) : ~IsInvalidDate(list[j].start)}}) <= 1

\* the orders sort(...) can leave the entries in: the sorted one, and any
\* order when the comparison does not order them (implementation-defined)
SortOutcomes(list) ==
    IF ConsistentOrder(list) THEN {SortByStart(list)}
    ELSE {[k \in 1..Len(list) |-> list[order[k]]] : order \in Permutations(1..Len(list))}

\* the lists of buckets of the groups that can be returned, sorted by the
\* start of their bucket
SortedBuckets(groups, BucketOf(_)) ==
    {[k \in 1..Len(sorted) |-> sorted[k].bucket] :
        sorted \in SortOutcomes([k \in 1..Len(groups) |->
                      [start |-> groups[k].key, bucket |-> BucketOf(groups[k])]])}

ShortMonths ==
    <<"Jan", "Feb", "Mar", "Apr", "May", "Jun", "Jul", "Aug", "Sep", "Oct", "Nov", "Dec">>

\* the key of the month of a metric: lines 103 and 104 of aggregateToMonthly
MonthKey(metric, offset) ==
    IF IsInvalidDate(metric.date) THEN "NaN-NaN-01"
    ELSE LET local == CivilFromDays(LocalDay(NewDate(metric.date), offset))
         IN  ZeroPad(ToString(local.year), 4) \o "-" \o PadStart2(ToString(local.month))
                \o "-01"

\* the callback of Object.entries(byMonth).map
MonthlyBucket(group, offset) ==
    LET local == CivilFromDays(LocalDay(NewDate(group.key), offset))
    IN  [month |-> group.key,
         monthLabel |-> IF IsInvalidDate(group.key) THEN "Invalid Date"
                        ELSE ShortMonths[local.month] \o " " \o ToString(local.year)]
           @@ BucketTotals(group.metrics)

\* the loop of an aggregation function over dailyMetrics from position k on
RECURSIVE GroupBy(_, _, _, _)
GroupBy(groups, dailyMetrics, KeyOf(_), k) ==
    IF k > Len(dailyMetrics) THEN groups
    ELSE GroupBy(GroupPush(groups, KeyOf(dailyMetrics[k]), dailyMetrics[k]),
                 dailyMetrics, KeyOf, k + 1)

\* the lists aggregateToMonthly can return
aggregateToMonthly(dailyMetrics, offset) ==
    LET byMonth == GroupBy(<<>>, dailyMetrics, LAMBDA m : MonthKey(m, offset), 1)
    IN  SortedBuckets(byMonth, LAMBDA g : MonthlyBucket(g, offset))

UpperChar(c) ==
    IF \E k \in 1..26 : LowerCase[k] = c
    THEN UpperCase[CHOOSE k \in 1..26 : LowerCase[k] = c]
    ELSE c

\* platform.charAt(0).toUpperCase() + platform.slice(1)
Capitalize(platform) ==
    IF platform = "" THEN ""
    ELSE UpperChar(CharAt(platform, 0)) \o SubSeq(platform, 2, Len(platform))

groupByPlatform(dailyMetrics) ==
    LET byPlatform == GroupBy(<<>>, dailyMetrics, LAMBDA m : m.platform, 1)
    IN  [k \in 1..Len(byPlatform) |->
            [platform |-> Capitalize(byPlatform[k].key)]
               @@ BucketTotals(byPlatform[k].metrics)]

(***************************************************************************)
(* The parser as a state machine: the run of parseCsv on one text.         *)
(***************************************************************************)
VARIABLES
    csvText,        \* the text being parsed
    fieldValue,     \* the field value csvText encodes, when encoded
    encoded,        \* csvText is QuoteField(fieldValue)
    i,              \* parseCSVToRecords: the loop index
    inQuotes,
    currentField,
    currentRecord,
    records,
    rows,           \* parseCsv: the rows returned
    cpc,            \* "scan", "records" (parseCSVToRecords returned), "done"
    entry,          \* the function that is run
    url,            \* validateSheetUrl: its argument
    sheetId,        \* the document identifier, "" when there is none
    pc,             \* the position of the run
    methodIndex,    \* the listing method the run is at
    patternIndex,   \* the pattern of that method the run is at
    tabs,
    foundGids,
    gid,            \* fetchSheetTabs: the probe loop's counter
    tabIndex,       \* the position of the loop over tabs
    pending,        \* the fetches that are issued and not settled
    log,            \* what the run has done so far, in order
    allData,        \* fetchDataFromSource: the records collected
    result,         \* what the run returned
    settled,        \* how the last fetch settled: "ok", "failed"; "none" before
    match,          \* the match the pattern loop is at, NoMatch for null
    matchCount,     \* the matches the running pattern has had
    matchedGids,    \* the gids the patterns have matched so far in the run
    fetched,        \* what the last data fetch came to: it threw, or its rows
    platform,       \* transformToAdsData: its platform argument
    dateNow,        \* transformToAdsData: what Date.now() returned, row by row
    adsData,        \* transformToAdsData: the records returned
    tabHeaders,     \* detectDataType: its argument, the headers of a tab
    dataType,       \* detectDataType: what it returned, "none" before
    dailyMetrics,   \* the aggregation functions: their argument
    timezoneOffset, \* the host's getTimezoneOffset(), in minutes
    metricIndex,    \* aggregateToWeekly: the position of the loop over dailyMetrics
    byWeek,         \* aggregateToWeekly: the [key, metrics] entries, in insertion order
    buckets,        \* what the aggregation function returned
    apc             \* the aggregation function that runs, "done" after it

csvVars == <<csvText, fieldValue, encoded, i, inQuotes, currentField,
             currentRecord, records, rows, cpc>>

runVars == <<entry, url, sheetId, pc, methodIndex, patternIndex, tabs, foundGids, gid, tabIndex,
             pending, log, allData, result, settled, match, matchCount, matchedGids,
             fetched>>

matchVars == <<match, matchCount, matchedGids>>

normVars == <<platform, dateNow, adsData, tabHeaders, dataType>>

aggVars == <<dailyMetrics, timezoneOffset, metricIndex, byWeek, buckets, apc>>

\* match = null
NoMatch == [gid |-> "", name |-> ""]

\* no data fetch has settled
NoData == [threw |-> FALSE, rows |-> <<>>]

vars == <<csvVars, runVars, normVars, aggVars>>

\* transformToAdsData is not run
NormIdle ==
    /\ platform = ""
    /\ dateNow = <<>>
    /\ adsData = <<>>
    /\ tabHeaders = <<>>
    /\ dataType = "none"

\* no aggregation function is run
AggIdle ==
    /\ dailyMetrics = <<>>
    /\ timezoneOffset = 0
    /\ metricIndex = 0
    /\ byWeek = <<>>
    /\ buckets = <<>>
    /\ apc = "done"

\* the characters the texts are made of
CsvAlphabet == {"a", ",", "\"", "\n", "\r", " "}

\* leading records put before the free part of a text: none, a header row,
\* a blank record and a header row
CsvPrefixes == {"", "a,a,a\n", " ,\na,a,a\n"}

\* what follows the free part of a text: nothing, a terminator and a blank
\* record without one
CsvSuffixes == {"", "\n "}

\* s.replace(/"/g, '""')
RECURSIVE DoubleQuotes(_)
DoubleQuotes(s) ==
    IF s = "" THEN ""
    ELSE (IF CharAt(s, 0) = "\"" THEN "\"\"" ELSE CharAt(s, 0))
         \o DoubleQuotes(SubSeq(s, 2, Len(s)))

\* a field value wrapped in quotes, its quotes doubled
QuoteField(value) == "\"" \o DoubleQuotes(value) \o "\""

ParserState ==
    [i |-> i, inQuotes |-> inQuotes, currentField |-> currentField,
     currentRecord |-> currentRecord, records |-> records]

SetParserState(st) ==
    /\ i' = st.i
    /\ inQuotes' = st.inQuotes
    /\ currentField' = st.currentField
    /\ currentRecord' = st.currentRecord
    /\ records' = st.records

\* no run of discovery or ingestion
NoRun ==
    /\ entry = "parseCsv"
    /\ url = ""
    /\ sheetId = ""
    /\ pc = "done"
    /\ methodIndex = 0
    /\ patternIndex = 0
    /\ tabs = <<>>
    /\ foundGids = {}
    /\ gid = 0
    /\ tabIndex = 0
    /\ pending = {}
    /\ log = <<>>
    /\ allData = <<>>
    /\ result = [kind |-> "none"]
    /\ settled = "none"
    /\ match = NoMatch
    /\ matchCount = 0
    /\ matchedGids = {}
    /\ fetched = NoData

InitCsv ==
    /\ \/ /\ encoded = FALSE
          /\ fieldValue = ""
          /\ csvText \in {p \o s \o e : p \in CsvPrefixes,
                                        s \in StringsUpTo(CsvAlphabet, MaxLen),
                                        e \in CsvSuffixes}
       \/ /\ encoded = TRUE
          /\ fieldValue \in StringsUpTo(CsvAlphabet, MaxLen)
          /\ csvText = QuoteField(fieldValue)
    /\ i = ParseStart.i
    /\ inQuotes = ParseStart.inQuotes
    /\ currentField = ParseStart.currentField
    /\ currentRecord = ParseStart.currentRecord
    /\ records = ParseStart.records
    /\ rows = <<>>
    /\ cpc = "scan"
    /\ NoRun
    /\ NormIdle
    /\ AggIdle

\* one iteration of the character loop
ScanChar ==
    /\ cpc = "scan"
    /\ i < Len(csvText)
    /\ SetParserState(ParseChar(csvText, ParserState))
    /\ UNCHANGED <<csvText, fieldValue, encoded, rows, cpc, runVars, normVars, aggVars>>

\* the loop is over: the last field and record, and the return
ReturnRecords ==
    /\ cpc = "scan"
    /\ i >= Len(csvText)
    /\ SetParserState(LastRecord(ParserState))
    /\ cpc' = "records"
    /\ UNCHANGED <<csvText, fieldValue, encoded, rows, runVars, normVars, aggVars>>

\* parseCsv on the records returned
ReturnRows ==
    /\ cpc = "records"
    /\ rows' = RowsOfRecords(records)
    /\ cpc' = "done"
    /\ UNCHANGED <<csvText, fieldValue, encoded, i, inQuotes, currentField,
                   currentRecord, records, runVars, normVars, aggVars>>

NextCsv == ScanChar \/ ReturnRecords \/ ReturnRows

SpecCsv == InitCsv /\ [][NextCsv]_vars

(***************************************************************************)
(* Tab discovery: fetchSheetTabs and validateSheetUrl of the library, and  *)
(* the GET handler of /api/sheets-tabs.  A listing page is known by the    *)
(* matches each pattern finds in it, in document order.                    *)
(***************************************************************************)
\* most matches one pattern finds in one page
MaxMatches == 2
MaxSourceTabs == 2
\* the gids of the tabs the document of the run has: a fetch of the data of
\* another gid fails
SheetGids == {"0", "7", "20", "25"}

\* for (let gid = 0; gid <= 20; gid++)
LastProbeGid == 20
\* name.length < 100
NameLimit == 100

\* the gids the listing pages name
ListGids == {"0", "25"}
\* a name of NameLimit characters
RECURSIVE Repeat(_, _)
Repeat(s, n) == IF n = 0 THEN "" ELSE s \o Repeat(s, n - 1)
LongName == Repeat("x", NameLimit)

\* the tab names the patterns capture
RawNames == {" ", " Ads", "Sales", "a\\/b"}

\* the documents the runs are about
SampleUrls ==
    {"", "https://example.com/sheet",
     "https://docs.google.com/spreadsheets/d/",
     "https://docs.google.com/spreadsheets/d/aZ-9_/edit#gid=0"}

\* [a-zA-Z0-9-_]
IsIdChar(c) ==
    \/ \E k \in 1..26 : c = LowerCase[k] \/ c = UpperCase[k]
    \/ IsDigit(c)
    \/ c \in {"-", "_"}

\* the longest run of identifier characters of s from position k (1-based)
RECURSIVE IdRun(_, _)
IdRun(s, k) ==
    IF k <= Len(s) /\ IsIdChar(SubSeq(s, k, k))
    THEN SubSeq(s, k, k) \o IdRun(s, k + 1)
    ELSE ""

\* url.match(/\/spreadsheets\/d\/([a-zA-Z0-9-_]+)/): [matched, id]
extractSheetId(u) ==
    LET lead == "/spreadsheets/d/"
        at(k) == /\ SubSeq(u, k, k + Len(lead) - 1) = lead
                 /\ IdRun(u, k + Len(lead)) # ""
        starts == {k \in 1..(Len(u) - Len(lead)) : at(k)}
    IN  IF starts = {} THEN [matched |-> FALSE, id |-> ""]
        ELSE LET first == CHOOSE k \in starts : \A j \in starts : k <= j
             IN  [matched |-> TRUE, id |-> IdRun(u, first + Len(lead))]

\* name.replace(/\\\//g, '/')
RECURSIVE UnescapeSlashes(_)
UnescapeSlashes(s) ==
    IF s = "" THEN ""
    ELSE IF Len(s) >= 2 /\ SubSeq(s, 1, 2) = "\\/"
    THEN "/" \o UnescapeSlashes(SubSeq(s, 3, Len(s)))
    ELSE CharAt(s, 0) \o UnescapeSlashes(SubSeq(s, 2, Len(s)))

\* A pattern: when it is applied (guard), what it makes of the captured name
\* (conv), the tests the name must pass besides being non-empty (short,
\* noBackslash), and whether its regular expression matches an empty name.
Pattern(id, guard, conv, short, noBackslash, emptyName) ==
    [id |-> id, guard |-> guard, conv |-> conv, short |-> short,
     noBackslash |-> noBackslash, emptyName |-> emptyName]

\* fetchSheetTabs, method 1: the patterns run on the pubhtml page
LibPubHtmlPatterns ==
    << Pattern("pattern1", "always", "trim", FALSE, FALSE, FALSE),
       Pattern("pattern2", "empty", "trim", FALSE, FALSE, FALSE),
       Pattern("pattern3", "empty", "trim", TRUE, FALSE, FALSE),
       Pattern("sheetListPattern", "jsonAndEmpty", "raw", FALSE, FALSE, FALSE),
       Pattern("pattern5", "always", "trim", FALSE, FALSE, TRUE),
       Pattern("scriptPattern", "always", "raw", FALSE, TRUE, FALSE) >>

\* fetchSheetTabs, method 2: the pattern run on the embed page
LibEmbedPatterns ==
    << Pattern("embedPattern", "always", "trim", FALSE, FALSE, FALSE) >>

\* a variant: fetchSheetTabs goes on to a third listing page
LibMethodsWithEditPage ==
    << [page |-> "pubhtml", guard |-> "always", patterns |-> LibPubHtmlPatterns],
       [page |-> "e/pubhtml", guard |-> "atMostOne", patterns |-> LibEmbedPatterns],
       [page |-> "edit", guard |-> "atMostOne", patterns |-> LibEmbedPatterns] >>

\* the listing methods of fetchSheetTabs, in order
LibMethods ==
    << [page |-> "pubhtml", guard |-> "always", patterns |-> LibPubHtmlPatterns],
       [page |-> "e/pubhtml", guard |-> "atMostOne", patterns |-> LibEmbedPatterns] >>

\* GET, method 1: the patterns run on the htmlembed page
GetEmbedPatterns ==
    << Pattern("pattern", "always", "unescape", FALSE, FALSE, FALSE),
       Pattern("pattern2", "empty", "unescape", FALSE, FALSE, FALSE) >>

\* GET, method 2: the patterns run on the pubhtml page
GetPubHtmlPatterns ==
    << Pattern("pattern1", "always", "trim", FALSE, FALSE, FALSE),
       Pattern("pattern2", "empty", "trim", FALSE, FALSE, FALSE),
       Pattern("pattern3", "empty", "trim", FALSE, FALSE, FALSE),
       Pattern("pattern4", "empty", "trim", TRUE, FALSE, FALSE),
       Pattern("pattern5", "empty", "trim", FALSE, FALSE, FALSE) >>

\* GET, method 3: the patterns run on the edit page
GetEditPatterns ==
    << Pattern("jsPattern", "always", "raw", FALSE, TRUE, FALSE),
       Pattern("jsonPattern", "always", "raw", FALSE, FALSE, FALSE) >>

\* the listing methods of GET, in order
GetMethods ==
    << [page |-> "htmlembed", guard |-> "always", patterns |-> GetEmbedPatterns],
       [page |-> "pubhtml", guard |-> "empty", patterns |-> GetPubHtmlPatterns],
       [page |-> "edit", guard |-> "empty", patterns |-> GetEditPatterns] >>

IsLib == entry \in {"fetchSheetTabs", "validateSheetUrl"}

Methods == IF entry = "GET" THEN GetMethods ELSE LibMethods

\* a variant: every method and every pattern is run
GuardIgnored(guard, list) == TRUE

\* the condition under which a method or a pattern is run
GuardHolds(guard, list) ==
    CASE guard = "always" -> TRUE
      [] guard = "empty" -> Len(list) = 0
      [] guard = "jsonAndEmpty" -> Len(list) = 0
      [] guard = "atMostOne" -> Len(list) <= 1

\* the name a pattern takes from a match
NameOf(pat, raw) ==
    CASE pat.conv = "trim" -> Trim(raw)
      [] pat.conv = "unescape" -> UnescapeSlashes(raw)
      [] pat.conv = "raw" -> raw

\* the name passes the tests of the pattern
NameAccepted(pat, name) ==
    /\ Truthy(name)
    /\ pat.short => Len(name) < NameLimit
    /\ pat.noBackslash => ~Includes(name, "\\")

\* tabs.push({ name, gid, ... }) of a listing pattern
ListedTab(name, g) ==
    IF entry = "GET" THEN [name |-> name, gid |-> g]
    ELSE [name |-> name, gid |-> g, rowCount |-> 0, headers |-> <<>>]

\* a variant: the gids found are not looked at
AcceptMatchAnyGid(pat, found, st) ==
    LET name == NameOf(pat, found.name)
    IN  IF NameAccepted(pat, name)
        THEN [tabs |-> Append(st.tabs, ListedTab(name, found.gid)),
              foundGids |-> st.foundGids \cup {found.gid}]
        ELSE st

\* the body of the loop of a pattern on the match found, on st = [tabs, foundGids]
AcceptMatch(pat, found, st) ==
    LET name == NameOf(pat, found.name)
    IN  IF NameAccepted(pat, name) /\ found.gid \notin st.foundGids
        THEN [tabs |-> Append(st.tabs, ListedTab(name, found.gid)),
              foundGids |-> st.foundGids \cup {found.gid}]
        ELSE st

\* the matches a pattern may find in a page
MatchesOf(pat) ==
    {[gid |-> g, name |-> n] :
        g \in ListGids,
        n \in RawNames \cup (IF pat.emptyName THEN {""} ELSE {})
                       \cup (IF pat.short THEN {LongName} ELSE {})}


\* the responses of the /api/sheets route: the fetch fails (net = FALSE), the
\* status is not OK, the body names an error, the body has no csv, or a csv
SampleCsv ==
    {"h1,h2,h3\n", "Date,Spend,Campaign\n2025-01-01,100,x\n"}

NotFoundResponse == [net |-> TRUE, ok |-> FALSE, error |-> "", csv |-> ""]

DataResponses ==
    {[net |-> FALSE, ok |-> FALSE, error |-> "", csv |-> ""],
     NotFoundResponse,
     [net |-> TRUE, ok |-> TRUE, error |-> "Sheet not found", csv |-> ""],
     [net |-> TRUE, ok |-> TRUE, error |-> "", csv |-> ""]}
    \cup {[net |-> TRUE, ok |-> TRUE, error |-> "", csv |-> c] : c \in SampleCsv}

\* fetchSheetAsCsv settled on a response: it throws, or returns the rows
fetchSheetAsCsv(response) ==
    IF ~response.net \/ ~response.ok \/ Truthy(response.error) \/ ~Truthy(response.csv)
    THEN [threw |-> TRUE, rows |-> <<>>]
    ELSE [threw |-> FALSE, rows |-> parseCsv(response.csv)]

\* the responses the route may give for the tab of a gid
DataResponsesOf(g) == IF g \in SheetGids THEN DataResponses ELSE {NotFoundResponse}

\* the ways a page fetch settles: fetch rejects, the status is not OK, a page
PageResponses == {"error", "notOk", "ok"}

\* a variant: the probe loop has no catch
CaughtButProbe(site) ==
    site \in {"page", "hydrate", "default", "source"}

\* the try block around a fetch has a catch that lets the run go on
Caught(site) ==
    site \in {"page", "probe", "hydrate", "default", "source"}

\* the promise rejects; validateSheetUrl catches what fetchSheetTabs throws
Rejected ==
    IF entry = "validateSheetUrl"
    THEN [kind |-> "validation", valid |-> FALSE, sheetId |-> <<sheetId>>, tabs |-> <<>>,
          error |-> <<"Could not access sheet. Make sure it's publicly accessible (Publish to web or share with anyone with link).">>]
    ELSE [kind |-> "rejected"]

\* an entry of the log: a fetch of a page ("page") or of the data of a tab
\* ("data"), what it asks for and the step of the run that issues it
Event(kind, id, site) == [kind |-> kind, id |-> id, site |-> site]

\* the run ends here with the promise rejected
Reject ==
    /\ pc' = "done"
    /\ result' = Rejected
    /\ pending' = {}
    /\ settled' = "failed"
    /\ UNCHANGED <<entry, url, sheetId, methodIndex, patternIndex, tabs, foundGids,
                   gid, tabIndex, log, allData>>

\* the parser is not run
CsvIdle ==
    /\ csvText = ""
    /\ fieldValue = ""
    /\ encoded = FALSE
    /\ i = 0
    /\ inQuotes = FALSE
    /\ currentField = ""
    /\ currentRecord = <<>>
    /\ records = <<>>
    /\ rows = <<>>
    /\ cpc = "done"

\* the tabs fetchDataFromSource is called with
SourcePlatforms == {"zepto", "blinkit"}
SourceTabs ==
    UNION {[1..n -> {[name |-> "Ads", platform |-> pf, gid |-> g] :
                        pf \in SourcePlatforms, g \in {"0", "7"}}] : n \in 0..MaxSourceTabs}

\* the instants Date.now() may return, in the order of the calls
Clock == {1000, 1001}
Instants(n) == {ns \in [1..n -> Clock] : \A j \in 1..n, k \in 1..n : j <= k => ns[j] <= ns[k]}

InitRest ==
    /\ foundGids = {}
    /\ gid = 0
    /\ pending = {}
    /\ log = <<>>
    /\ allData = <<>>
    /\ result = [kind |-> "none"]
    /\ settled = "none"
    /\ match = NoMatch
    /\ matchCount = 0
    /\ matchedGids = {}
    /\ fetched = NoData
    /\ CsvIdle
    /\ NormIdle
    /\ AggIdle

InitDiscovery ==
    /\ \/ /\ entry = "validateSheetUrl"
          /\ url \in SampleUrls
          /\ sheetId = ""
          /\ pc = "validate"
       \/ /\ entry = "fetchSheetTabs"
          /\ url = ""
          /\ sheetId = "aZ-9_"
          /\ pc = "method"
       \/ /\ entry = "GET"
          /\ url = ""
          /\ sheetId \in {"", "aZ-9_"}
          /\ pc = "request"
    /\ methodIndex = 1
    /\ patternIndex = 1
    /\ tabs = <<>>
    /\ tabIndex = 0
    /\ InitRest

\* fetchDataFromSource is called on a sheet and its configured tabs
InitSource ==
    /\ entry = "fetchDataFromSource"
    /\ url = ""
    /\ sheetId = "aZ-9_"
    /\ pc = "source"
    /\ methodIndex = 0
    /\ patternIndex = 0
    /\ tabs \in SourceTabs
    /\ tabIndex = 1
    /\ InitRest

Init == InitDiscovery \/ InitSource

\* validateSheetUrl up to its call of fetchSheetTabs
Validate ==
    /\ pc = "validate"
    /\ LET id == extractSheetId(url)
       IN  IF ~id.matched
           THEN /\ result' = [kind |-> "validation", valid |-> FALSE, sheetId |-> <<>>,
                              tabs |-> <<>>, error |-> <<"Invalid Google Sheets URL">>]
                /\ pc' = "done"
                /\ UNCHANGED sheetId
           ELSE /\ sheetId' = id.id
                /\ pc' = "method"
                /\ UNCHANGED result
    /\ UNCHANGED <<entry, url, methodIndex, patternIndex, tabs, foundGids, gid,
                   tabIndex, pending, log, allData, settled, matchVars, csvVars, normVars, aggVars, fetched>>

\* GET: the sheetId parameter
GetRequest ==
    /\ pc = "request"
    /\ IF ~Truthy(sheetId)
       THEN /\ result' = [kind |-> "response", status |-> 400, tabs |-> <<>>,
                          error |-> <<"Missing sheetId parameter">>]
            /\ pc' = "done"
       ELSE /\ pc' = "method"
            /\ UNCHANGED result
    /\ UNCHANGED <<entry, url, sheetId, methodIndex, patternIndex, tabs, foundGids,
                   gid, tabIndex, pending, log, allData, settled, matchVars, csvVars, normVars, aggVars, fetched>>

\* a listing method whose condition holds: its page is fetched
MethodFetch ==
    /\ pc = "method"
    /\ methodIndex <= Len(Methods)
    /\ GuardHolds(Methods[methodIndex].guard, tabs)
    /\ pending' = pending \cup {[kind |-> "page", id |-> Methods[methodIndex].page]}
    /\ log' = Append(log, Event("page", Methods[methodIndex].page, Methods[methodIndex].page))
    /\ pc' = "page"
    /\ settled' = "none"
    /\ UNCHANGED <<entry, url, sheetId, methodIndex, patternIndex, tabs, foundGids,
                   gid, tabIndex, allData, result, matchVars, csvVars, normVars, aggVars, fetched>>

\* a listing method whose condition fails
MethodSkip ==
    /\ pc = "method"
    /\ methodIndex <= Len(Methods)
    /\ ~GuardHolds(Methods[methodIndex].guard, tabs)
    /\ methodIndex' = methodIndex + 1
    /\ UNCHANGED <<entry, url, sheetId, pc, patternIndex, tabs, foundGids, gid,
                   tabIndex, pending, log, allData, result, settled, matchVars, csvVars, normVars, aggVars, fetched>>

\* the page fetch settles: with a page the patterns follow, without one the
\* catch (or the failed response.ok test) leads to the next method
PageSettled ==
    /\ pc = "page"
    /\ \E response \in PageResponses :
          IF response = "error" /\ ~Caught("page") THEN Reject
          ELSE /\ pending' = {}
               /\ settled' = IF response = "ok" THEN "ok" ELSE "failed"
               /\ IF response = "ok"
                  THEN pc' = "pattern" /\ patternIndex' = 1 /\ UNCHANGED methodIndex
                  ELSE pc' = "method" /\ methodIndex' = methodIndex + 1
                       /\ UNCHANGED patternIndex
               /\ UNCHANGED <<entry, url, sheetId, tabs, foundGids, gid, tabIndex,
                              log, allData, result>>
    /\ UNCHANGED <<matchVars, csvVars, normVars, aggVars, fetched>>

\* a pattern whose condition holds: its loop over the matches starts
PatternStart ==
    /\ pc = "pattern"
    /\ patternIndex <= Len(Methods[methodIndex].patterns)
    /\ GuardHolds(Methods[methodIndex].patterns[patternIndex].guard, tabs)
    /\ pc' = "match"
    /\ UNCHANGED <<entry, url, sheetId, methodIndex, patternIndex, tabs, foundGids,
                   gid, tabIndex, pending, log, allData, result, settled, matchVars,
                   csvVars, normVars, aggVars, fetched>>

\* while ((match = pattern.exec(html)) !== null): one more match
PatternMatch ==
    /\ pc = "match"
    /\ matchCount < MaxMatches
    /\ LET pat == Methods[methodIndex].patterns[patternIndex]
       IN  \E found \in MatchesOf(pat) :
              LET after == AcceptMatch(pat, found, [tabs |-> tabs, foundGids |-> foundGids])
              IN  /\ match' = found
                  /\ matchedGids' = matchedGids \cup {found.gid}
                  /\ tabs' = after.tabs
                  /\ foundGids' = after.foundGids
    /\ matchCount' = matchCount + 1
    /\ UNCHANGED <<entry, url, sheetId, pc, methodIndex, patternIndex, gid, tabIndex,
                   pending, log, allData, result, settled, csvVars, normVars, aggVars, fetched>>

\* pattern.exec(html) returns null
PatternEnd ==
    /\ pc = "match"
    /\ pc' = "pattern"
    /\ patternIndex' = patternIndex + 1
    /\ match' = NoMatch
    /\ matchCount' = 0
    /\ UNCHANGED <<entry, url, sheetId, methodIndex, tabs, foundGids, gid, tabIndex,
                   pending, log, allData, result, settled, matchedGids, csvVars, normVars, aggVars, fetched>>

\* a pattern whose condition fails (for the sheet list pattern: tabs were
\* found, or the page has no "sheets" array)
PatternSkip ==
    /\ pc = "pattern"
    /\ patternIndex <= Len(Methods[methodIndex].patterns)
    /\ LET pat == Methods[methodIndex].patterns[patternIndex]
       IN  ~GuardHolds(pat.guard, tabs) \/ pat.guard = "jsonAndEmpty"
    /\ patternIndex' = patternIndex + 1
    /\ UNCHANGED <<entry, url, sheetId, pc, methodIndex, tabs, foundGids, gid,
                   tabIndex, pending, log, allData, result, settled, matchVars, csvVars, normVars, aggVars, fetched>>

\* the patterns of the page are done
PatternsDone ==
    /\ pc = "pattern"
    /\ patternIndex > Len(Methods[methodIndex].patterns)
    /\ pc' = "method"
    /\ methodIndex' = methodIndex + 1
    /\ UNCHANGED <<entry, url, sheetId, patternIndex, tabs, foundGids, gid,
                   tabIndex, pending, log, allData, result, settled, matchVars, csvVars, normVars, aggVars, fetched>>

\* the listing methods are done
MethodsDone ==
    /\ pc = "method"
    /\ methodIndex > Len(Methods)
    /\ pc' = IF IsLib THEN "probeGate" ELSE "default"
    /\ UNCHANGED <<entry, url, sheetId, methodIndex, patternIndex, tabs, foundGids,
                   gid, tabIndex, pending, log, allData, result, settled, matchVars, csvVars, normVars, aggVars, fetched>>

\* fetchSheetTabs, method 3: the probe loop is entered or passed by
ProbeGate ==
    /\ pc = "probeGate"
    /\ IF GuardHolds("atMostOne", tabs)
       THEN /\ pc' = "probe"
            /\ gid' = 0
            /\ UNCHANGED tabIndex
       ELSE /\ pc' = "hydrate"
            /\ tabIndex' = 1
            /\ UNCHANGED gid
    /\ UNCHANGED <<entry, url, sheetId, methodIndex, patternIndex, tabs, foundGids,
                   pending, log, allData, result, settled, matchVars, csvVars, normVars, aggVars, fetched>>

\* the probe loop: a gid that is found already
ProbeSkip ==
    /\ pc = "probe"
    /\ gid <= LastProbeGid
    /\ ToString(gid) \in foundGids
    /\ gid' = gid + 1
    /\ UNCHANGED <<entry, url, sheetId, pc, methodIndex, patternIndex, tabs,
                   foundGids, tabIndex, pending, log, allData, result, settled, matchVars, csvVars, normVars, aggVars, fetched>>

\* the probe loop: the data of the gid is fetched
ProbeFetch ==
    /\ pc = "probe"
    /\ gid <= LastProbeGid
    /\ ToString(gid) \notin foundGids
    /\ pending' = pending \cup {[kind |-> "data", id |-> ToString(gid)]}
    /\ log' = Append(log, Event("data", ToString(gid), "probe"))
    /\ pc' = "probeWait"
    /\ settled' = "none"
    /\ UNCHANGED <<entry, url, sheetId, methodIndex, patternIndex, tabs, foundGids,
                   gid, tabIndex, allData, result, matchVars, csvVars, normVars, aggVars, fetched>>

\* a variant: the probe names a tab after its gid
ProbedTabNamedByGid(list, g, csvData) ==
    [name |-> "Sheet " \o ToString(g), gid |-> ToString(g),
     rowCount |-> Len(csvData), headers |-> ObjectKeys(csvData[1])]

\* a variant: the probe adds a tab without its metadata
ProbedTabWithoutMetadata(list, g, csvData) ==
    [name |-> "Sheet " \o ToString(Len(list) + 1), gid |-> ToString(g),
     rowCount |-> 0, headers |-> <<>>]

\* the tab the probe makes of the rows of the gid g, the list being as it is
ProbedTab(list, g, csvData) ==
    [name |-> "Sheet " \o ToString(Len(list) + 1), gid |-> ToString(g),
     rowCount |-> Len(csvData), headers |-> ObjectKeys(csvData[1])]

\* the probe loop: the fetch settles
ProbeSettled ==
    /\ pc = "probeWait"
    /\ \E response \in DataResponsesOf(ToString(gid)) : LET csvData == fetchSheetAsCsv(response) IN
          /\ fetched' = csvData
          /\ IF csvData.threw /\ ~Caught("probe") THEN Reject
             ELSE /\ IF ~csvData.threw /\ Len(csvData.rows) > 0
                     THEN /\ foundGids' = foundGids \cup {ToString(gid)}
                          /\ tabs' = Append(tabs, ProbedTab(tabs, gid, csvData.rows))
                     ELSE UNCHANGED <<tabs, foundGids>>
                  /\ gid' = gid + 1
                  /\ pc' = "probe"
                  /\ pending' = {}
                  /\ settled' = IF csvData.threw THEN "failed" ELSE "ok"
                  /\ UNCHANGED <<entry, url, sheetId, methodIndex, patternIndex,
                                 tabIndex, log, allData, result>>
    /\ UNCHANGED <<matchVars, csvVars, normVars, aggVars>>

\* the probe loop is over
ProbeDone ==
    /\ pc = "probe"
    /\ gid > LastProbeGid
    /\ pc' = "hydrate"
    /\ tabIndex' = 1
    /\ UNCHANGED <<entry, url, sheetId, methodIndex, patternIndex, tabs, foundGids,
                   gid, pending, log, allData, result, settled, matchVars, csvVars, normVars, aggVars, fetched>>

\* a variant: the metadata of every tab is fetched
NeedsMetadataAlways(tab) == TRUE

\* the tab lacks its row count or its headers
NeedsMetadata(tab) == tab.rowCount = 0 \/ Len(tab.headers) = 0

\* the metadata loop: a tab that has its metadata
HydrateSkip ==
    /\ pc = "hydrate"
    /\ tabIndex <= Len(tabs)
    /\ ~NeedsMetadata(tabs[tabIndex])
    /\ tabIndex' = tabIndex + 1
    /\ UNCHANGED <<entry, url, sheetId, pc, methodIndex, patternIndex, tabs,
                   foundGids, gid, pending, log, allData, result, settled, matchVars, csvVars, normVars, aggVars, fetched>>

\* the metadata loop: the data of the tab is fetched
HydrateFetch ==
    /\ pc = "hydrate"
    /\ tabIndex <= Len(tabs)
    /\ NeedsMetadata(tabs[tabIndex])
    /\ pending' = pending \cup {[kind |-> "data", id |-> tabs[tabIndex].gid]}
    /\ log' = Append(log, Event("data", tabs[tabIndex].gid, "hydrate"))
    /\ pc' = "hydrateWait"
    /\ settled' = "none"
    /\ UNCHANGED <<entry, url, sheetId, methodIndex, patternIndex, tabs, foundGids,
                   gid, tabIndex, allData, result, matchVars, csvVars, normVars, aggVars, fetched>>

\* a variant: the tab takes the name of the default tab
HydratedAsDefault(tab, csvData) ==
    [tab EXCEPT !.name = "Sheet1", !.rowCount = Len(csvData)]

\* the tab after a fetch of its data that did not throw
Hydrated(tab, csvData) ==
    [tab EXCEPT !.rowCount = Len(csvData),
                !.headers = IF Len(csvData) > 0 THEN ObjectKeys(csvData[1]) ELSE @]

\* the metadata loop: the fetch settles
HydrateSettled ==
    /\ pc = "hydrateWait"
    /\ \E response \in DataResponsesOf(tabs[tabIndex].gid) : LET csvData == fetchSheetAsCsv(response) IN
          /\ fetched' = csvData
          /\ IF csvData.threw /\ ~Caught("hydrate") THEN Reject
             ELSE /\ tabs' = IF csvData.threw THEN tabs
                             ELSE [tabs EXCEPT ![tabIndex] = Hydrated(@, csvData.rows)]
                  /\ tabIndex' = tabIndex + 1
                  /\ pc' = "hydrate"
                  /\ pending' = {}
                  /\ settled' = IF csvData.threw THEN "failed" ELSE "ok"
                  /\ UNCHANGED <<entry, url, sheetId, methodIndex, patternIndex,
                                 foundGids, gid, log, allData, result>>
    /\ UNCHANGED <<matchVars, csvVars, normVars, aggVars>>

\* the metadata loop is over
HydrateDone ==
    /\ pc = "hydrate"
    /\ tabIndex > Len(tabs)
    /\ pc' = "default"
    /\ UNCHANGED <<entry, url, sheetId, methodIndex, patternIndex, tabs, foundGids,
                   gid, tabIndex, pending, log, allData, result, settled, matchVars, csvVars, normVars, aggVars, fetched>>

\* fetchSheetTabs: no tab yet, the default view is fetched
DefaultFetch ==
    /\ pc = "default"
    /\ IsLib
    /\ Len(tabs) = 0
    /\ pending' = pending \cup {[kind |-> "data", id |-> ""]}
    /\ log' = Append(log, Event("data", "", "default"))
    /\ pc' = "defaultWait"
    /\ settled' = "none"
    /\ UNCHANGED <<entry, url, sheetId, methodIndex, patternIndex, tabs, foundGids,
                   gid, tabIndex, allData, result, matchVars, csvVars, normVars, aggVars, fetched>>

\* a variant: the default tab is the second view
DefaultTabOfGid1(csvData) ==
    [name |-> "Sheet1", gid |-> "1", rowCount |-> Len(csvData),
     headers |-> ObjectKeys(csvData[1])]

\* the default tab fetchSheetTabs makes of the rows of the default view
DefaultTab(csvData) ==
    [name |-> "Sheet1", gid |-> "0", rowCount |-> Len(csvData),
     headers |-> ObjectKeys(csvData[1])]

\* fetchSheetTabs: the fetch of the default view settles
DefaultSettled ==
    /\ pc = "defaultWait"
    /\ \E response \in DataResponses : LET csvData == fetchSheetAsCsv(response) IN
          /\ fetched' = csvData
          /\ IF csvData.threw /\ ~Caught("default") THEN Reject
             ELSE /\ tabs' = IF ~csvData.threw /\ Len(csvData.rows) > 0
                             THEN Append(tabs, DefaultTab(csvData.rows))
                             ELSE tabs
                  /\ pc' = "return"
                  /\ pending' = {}
                  /\ settled' = IF csvData.threw THEN "failed" ELSE "ok"
                  /\ UNCHANGED <<entry, url, sheetId, methodIndex, patternIndex,
                                 foundGids, gid, tabIndex, log, allData, result>>
    /\ UNCHANGED <<matchVars, csvVars, normVars, aggVars>>

\* GET: no tab yet, the default tab is returned
DefaultPush ==
    /\ pc = "default"
    /\ entry = "GET"
    /\ Len(tabs) = 0
    /\ tabs' = Append(tabs, [name |-> "Sheet1", gid |-> "0"])
    /\ pc' = "return"
    /\ UNCHANGED <<entry, url, sheetId, methodIndex, patternIndex, foundGids, gid,
                   tabIndex, pending, log, allData, result, settled, matchVars, csvVars, normVars, aggVars, fetched>>

\* there are tabs: no default
DefaultSkip ==
    /\ pc = "default"
    /\ Len(tabs) # 0
    /\ pc' = "return"
    /\ UNCHANGED <<entry, url, sheetId, methodIndex, patternIndex, tabs, foundGids,
                   gid, tabIndex, pending, log, allData, result, settled, matchVars, csvVars, normVars, aggVars, fetched>>

\* a variant: every list of tabs is valid
ValidationOfAny(list) ==
    [kind |-> "validation", valid |-> TRUE, sheetId |-> <<sheetId>>, tabs |-> list,
     error |-> <<>>]

\* validateSheetUrl after fetchSheetTabs returned
Validation(list) ==
    IF Len(list) = 0
    THEN [kind |-> "validation", valid |-> FALSE, sheetId |-> <<sheetId>>, tabs |-> <<>>,
          error |-> <<"Sheet is empty or not accessible. Make sure it's published to web.">>]
    ELSE [kind |-> "validation", valid |-> TRUE, sheetId |-> <<sheetId>>, tabs |-> list,
          error |-> <<>>]

\* the run returns
Return ==
    /\ pc = "return"
    /\ result' = CASE entry = "validateSheetUrl" -> Validation(tabs)
                   [] entry = "fetchSheetTabs" -> [kind |-> "tabs", tabs |-> tabs]
                   [] entry = "GET" -> [kind |-> "response", status |-> 200,
                                        tabs |-> tabs, error |-> <<>>]
    /\ pc' = "done"
    /\ UNCHANGED <<entry, url, sheetId, methodIndex, patternIndex, tabs, foundGids,
                   gid, tabIndex, pending, log, allData, settled, matchVars, csvVars, normVars, aggVars, fetched>>

\* fetchDataFromSource: the data of the next tab is fetched
SourceFetch ==
    /\ pc = "source"
    /\ tabIndex <= Len(tabs)
    /\ pending' = pending \cup {[kind |-> "data", id |-> tabs[tabIndex].gid]}
    /\ pc' = "sourceWait"
    /\ settled' = "none"
    /\ UNCHANGED <<entry, url, sheetId, methodIndex, patternIndex, tabs, foundGids,
                   gid, tabIndex, log, allData, result, matchVars, csvVars, normVars, aggVars, fetched>>

\* fetchDataFromSource: the fetch settles, the rows are transformed and
\* collected; the log keeps what the fetch came to
SourceSettled ==
    /\ pc = "sourceWait"
    /\ \E response \in DataResponsesOf(tabs[tabIndex].gid) : LET csvData == fetchSheetAsCsv(response) IN
          /\ fetched' = csvData
          /\ IF csvData.threw /\ ~Caught("source") THEN Reject
             ELSE \E nows \in Instants(Len(csvData.rows)) :
                  /\ allData' = IF csvData.threw THEN allData
                                ELSE allData \o transformToAdsData(csvData.rows,
                                                   tabs[tabIndex].platform, nows)
                  /\ log' = Append(log, [threw |-> csvData.threw, rows |-> csvData.rows,
                                         nows |-> nows])
                  /\ tabIndex' = tabIndex + 1
                  /\ pc' = "source"
                  /\ pending' = {}
                  /\ settled' = IF csvData.threw THEN "failed" ELSE "ok"
                  /\ UNCHANGED <<entry, url, sheetId, methodIndex, patternIndex, tabs,
                                 foundGids, gid, result>>
    /\ UNCHANGED <<matchVars, csvVars, normVars, aggVars>>

\* fetchDataFromSource returns
SourceDone ==
    /\ pc = "source"
    /\ tabIndex > Len(tabs)
    /\ result' = [kind |-> "records", data |-> allData]
    /\ pc' = "done"
    /\ UNCHANGED <<entry, url, sheetId, methodIndex, patternIndex, tabs, foundGids,
                   gid, tabIndex, pending, log, allData, settled, matchVars, csvVars, normVars, aggVars, fetched>>

Next ==
    \/ Validate
    \/ GetRequest
    \/ MethodFetch
    \/ MethodSkip
    \/ PageSettled
    \/ PatternStart
    \/ PatternMatch
    \/ PatternEnd
    \/ PatternSkip
    \/ PatternsDone
    \/ MethodsDone
    \/ ProbeGate
    \/ ProbeSkip
    \/ ProbeFetch
    \/ ProbeSettled
    \/ ProbeDone
    \/ HydrateSkip
    \/ HydrateFetch
    \/ HydrateSettled
    \/ HydrateDone
    \/ DefaultFetch
    \/ DefaultSettled
    \/ DefaultPush
    \/ DefaultSkip
    \/ Return
    \/ SourceFetch
    \/ SourceSettled
    \/ SourceDone

Spec == Init /\ [][Next]_vars

(***************************************************************************)
(* Tab discovery and ingestion: claims C1 to C6, checked under Spec.       *)
(***************************************************************************)
Discovering == entry \in {"fetchSheetTabs", "validateSheetUrl", "GET"}

CurrentPattern == Methods[methodIndex].patterns[patternIndex]

GidsOf(list) == {list[k].gid : k \in 1..Len(list)}

UniqueGids(list) == \A j, k \in 1..Len(list) : list[j].gid = list[k].gid => j = k

\* the step is one turn of the loop of a pattern over its matches
MatchStep == pc = "match" /\ matchCount' = matchCount + 1

\* the step fetches a listing page, starts a pattern, enters the probe loop
PageFetchStep == pc = "method" /\ pc' = "page"
PatternStartStep == pc = "pattern" /\ pc' = "match"
ProbeStartStep == pc = "probeGate" /\ pc' = "probe"

\* the descriptors of the list stay where they are, with their names and gids
KeepsListed ==
    /\ Len(tabs') >= Len(tabs)
    /\ \A k \in 1..Len(tabs) : tabs'[k].name = tabs[k].name /\ tabs'[k].gid = tabs[k].gid

\* C1 as stated: no two descriptors share a gid, and a descriptor carries the
\* name of the first match found for its gid during the run. A descriptor
\* is therefore only ever added, by a pattern or by the probe, for a gid that
\* no earlier match of the run was for.
C1_FirstMatchNamesTab ==
    /\ [](Discovering => UniqueGids(tabs))
    /\ [][Discovering /\ pc \in {"match", "probeWait"} /\ Len(tabs') > Len(tabs)
             => tabs'[Len(tabs')].gid \notin matchedGids]_vars

\* C1, amended: in every run of tab discovery no two descriptors of the list,
\* at any time and in what is returned, share a gid; a descriptor carries the
\* name of the first match for its gid that passes the tests of its pattern
\* (a non-empty name, and for some patterns a name that is short or free of
\* backslashes): that match appends the descriptor, any other match changes
\* nothing, and no later step changes the name or the gid of a descriptor.
C1_FirstAcceptedMatchNamesTab ==
    /\ [](Discovering =>
            /\ UniqueGids(tabs)
            /\ pc = "done" /\ result.kind \in {"tabs", "response"} => result.tabs = tabs
            /\ pc = "done" /\ result.kind = "validation" => result.tabs \in {tabs, <<>>})
    /\ [][Discovering =>
            /\ KeepsListed
            /\ MatchStep =>
                 LET name == NameOf(CurrentPattern, match'.name)
                 IN  IF NameAccepted(CurrentPattern, name) /\ match'.gid \notin GidsOf(tabs)
                     THEN /\ Len(tabs') = Len(tabs) + 1
                          /\ tabs'[Len(tabs')].name = name
                          /\ tabs'[Len(tabs')].gid = match'.gid
                     ELSE tabs' = tabs]_vars

\* a match with a name that would do arrives for a gid that has its
\* descriptor, under another name
C1_Witness ==
    /\ Discovering
    /\ pc = "match"
    /\ match # NoMatch
    /\ NameAccepted(CurrentPattern, NameOf(CurrentPattern, match.name))
    /\ \E k \in 1..Len(tabs) :
          /\ tabs[k].gid = match.gid
          /\ tabs[k].name # NameOf(CurrentPattern, match.name)

\* C2 as stated: the chain stops at the first strategy that yields a tab. Once
\* there is a tab, no pattern is applied, no listing page is fetched and the
\* probe is not made.
C2_ChainStopsAtFirstYield ==
    [][Discovering /\ (PageFetchStep \/ PatternStartStep \/ ProbeStartStep)
          => Len(tabs) = 0]_vars

\* the patterns that are applied whatever has been found: <<entry, page, id>>
AlwaysApplied ==
    {<<"lib", "pubhtml", "pattern1">>, <<"lib", "pubhtml", "pattern5">>,
     <<"lib", "pubhtml", "scriptPattern">>, <<"lib", "e/pubhtml", "embedPattern">>,
     <<"GET", "htmlembed", "pattern">>, <<"GET", "pubhtml", "pattern1">>,
     <<"GET", "edit", "jsPattern">>, <<"GET", "edit", "jsonPattern">>}

\* C2, amended: the methods and, on a page, the patterns run in a fixed
\* order. In fetchSheetTabs the second listing page is fetched and the probe
\* is made only while at most one tab has been found; in the GET handler a
\* listing page after the first is fetched only while no tab has been found.
\* On a page that is fetched, the first pattern is applied always, and so are
\* patterns 5 and 6 of fetchSheetTabs and both patterns of the GET handler's
\* edit page; every other pattern is applied only while no tab has been found.
C2_StrategiesRunUnderTheirConditions ==
    [][Discovering =>
          /\ PatternStartStep
                /\ <<IF IsLib THEN "lib" ELSE "GET", Methods[methodIndex].page,
                     CurrentPattern.id>> \notin AlwaysApplied
                => Len(tabs) = 0
          /\ PageFetchStep => Len(tabs) <= (IF IsLib THEN 1 ELSE 0)
          /\ ProbeStartStep => Len(tabs) <= 1
          /\ methodIndex' >= methodIndex
          /\ methodIndex' = methodIndex /\ pc \in {"pattern", "match"}
                => patternIndex' >= patternIndex]_vars

\* pattern 5 of fetchSheetTabs starts when a tab has been found
C2_Witness ==
    /\ IsLib
    /\ pc = "match"
    /\ matchCount = 0
    /\ CurrentPattern.id = "pattern5"
    /\ Len(tabs) >= 1

\* fetchDataFromSource: the records of the first k tabs, by what the fetches
\* came to
RECURSIVE RecordsOfTabs(_)
RecordsOfTabs(k) ==
    IF k = 0 THEN <<>>
    ELSE RecordsOfTabs(k - 1)
            \o (IF log[k].threw THEN <<>>
                ELSE transformToAdsData(log[k].rows, tabs[k].platform, log[k].nows))

\* C3: a failing fetch is not fatal. No run rejects; a fetch that fails
\* leaves the list of tabs and the records collected as they are and the run
\* goes on with the next method, gid or tab; fetchSheetTabs returns its list,
\* and fetchDataFromSource returns the records of the tabs whose fetch did not
\* fail, in the order of the tabs.
C3_FailingFetchNotFatal ==
    /\ [](/\ result.kind # "rejected"
          /\ pc = "done" /\ entry = "fetchSheetTabs"
                => result = [kind |-> "tabs", tabs |-> tabs]
          /\ pc = "done" /\ entry = "fetchDataFromSource"
                => /\ Len(log) = Len(tabs)
                   /\ result = [kind |-> "records", data |-> RecordsOfTabs(Len(tabs))])
    /\ [][settled' = "failed"
             /\ pc \in {"page", "probeWait", "hydrateWait", "defaultWait", "sourceWait"}
          => /\ tabs' = tabs
             /\ foundGids' = foundGids
             /\ allData' = allData
             /\ CASE pc = "page" -> pc' = "method" /\ methodIndex' = methodIndex + 1
                  [] pc = "probeWait" -> pc' = "probe" /\ gid' = gid + 1
                  [] pc = "hydrateWait" -> pc' = "hydrate" /\ tabIndex' = tabIndex + 1
                  [] pc = "defaultWait" -> pc' = "return"
                  [] pc = "sourceWait" -> pc' = "source" /\ tabIndex' = tabIndex + 1]_vars

\* fetchDataFromSource has returned the records of a tab though the fetch of
\* another tab failed
C3_Witness ==
    /\ entry = "fetchDataFromSource"
    /\ pc = "done"
    /\ \E k \in 1..Len(log) : log[k].threw
    /\ Len(result.data) >= 1

\* C4: validateSheetUrl never rejects. It returns valid = false with a
\* non-empty error text and no tabs exactly when the URL has no sheet id or
\* discovery returns no tab, and valid = true with the tabs discovered and no
\* error in every other case.
C4_ValidateReturnsVerdict ==
    entry = "validateSheetUrl" =>
       /\ result.kind \in {"none", "validation"}
       /\ pc = "done" =>
             /\ result.kind = "validation"
             /\ IF ~extractSheetId(url).matched \/ Len(tabs) = 0
                THEN /\ result.valid = FALSE
                     /\ result.tabs = <<>>
                     /\ Len(result.error) = 1
                     /\ result.error[1] # ""
                ELSE /\ result.valid = TRUE
                     /\ result.tabs = tabs
                     /\ Len(tabs) > 0
                     /\ result.error = <<>>

\* the URL has a sheet id and discovery has come back with no tab
C4_Witness ==
    /\ entry = "validateSheetUrl"
    /\ pc = "done"
    /\ extractSheetId(url).matched
    /\ settled = "failed"
    /\ result.valid = FALSE

\* the loop over the tabs that fetches the metadata
Hydrating == IsLib /\ pc \in {"hydrate", "hydrateWait"}

\* C5: the metadata loop goes over the tabs from the first to the last, and
\* for a tab whose rowCount is 0 or whose headers are empty it issues a data
\* fetch; when the fetch fails the tab stays as it is, with rowCount 0 and no
\* headers; the loop adds, removes and moves no descriptor and changes no name
\* or gid, and the list is returned as the loop leaves it.
C5_HydrationKeepsDescriptors ==
    /\ [](IsLib /\ pc = "done" /\ Len(tabs) > 0 /\ result.kind = "tabs"
             => result.tabs = tabs)
    /\ [][/\ IsLib /\ pc \notin {"hydrate", "hydrateWait"} /\ pc' = "hydrate"
                => tabIndex' = 1
          /\ IsLib /\ pc = "hydrate" /\ tabIndex <= Len(tabs)
                => IF tabs[tabIndex].rowCount = 0 \/ tabs[tabIndex].headers = <<>>
                   THEN /\ pc' = "hydrateWait"
                        /\ pending' = {[kind |-> "data", id |-> tabs[tabIndex].gid]}
                        /\ log' = Append(log, Event("data", tabs[tabIndex].gid, "hydrate"))
                        /\ tabIndex' = tabIndex
                   ELSE pc' = "hydrate" /\ tabIndex' = tabIndex + 1 /\ log' = log
          /\ IsLib /\ pc = "hydrate" /\ pc' # "hydrate" /\ pc' # "hydrateWait"
                => tabIndex > Len(tabs)
          /\ IsLib /\ pc = "hydrateWait" /\ settled' = "failed"
                => /\ tabs' = tabs
                   /\ tabs[tabIndex].rowCount = 0
                   /\ tabs[tabIndex].headers = <<>>
          /\ Hydrating
                => /\ Len(tabs') = Len(tabs)
                   /\ \A k \in 1..Len(tabs) :
                         /\ tabs'[k].name = tabs[k].name
                         /\ tabs'[k].gid = tabs[k].gid
                         /\ k # tabIndex => tabs'[k] = tabs[k]
          /\ IsLib /\ pc \in {"default", "return"} /\ Len(tabs) > 0
                => tabs' = tabs]_vars

\* a tab whose metadata fetch failed is returned with rowCount 0 and no headers
C5_Witness ==
    /\ entry = "fetchSheetTabs"
    /\ pc = "done"
    /\ settled = "failed"
    /\ \E k \in 1..Len(result.tabs) :
          /\ result.tabs[k].rowCount = 0
          /\ result.tabs[k].headers = <<>>
          /\ log[Len(log)] = Event("data", result.tabs[k].gid, "hydrate")

\* fetchSheetTabs has fetched the default view
DefaultFetched == \E k \in 1..Len(log) : log[k] = Event("data", "", "default")

\* the listing and the probe have found nothing
NothingFound ==
    \/ entry = "fetchSheetTabs" /\ DefaultFetched
    \/ entry = "GET" /\ result.status = 200 /\ matchedGids = {}

char == CharAt(csvText, i)
nextChar == CharAt(csvText, i + 1)

\* a step of the character loop
LoopStep == cpc = "scan" /\ i < Len(csvText) /\ cpc' = "scan"

\* the record the parser is in, completed by the field it is in
fullRecord == Append(currentRecord, currentField)

\* C7: while in quotes a doubled quote adds one literal quote to the field, a
\* comma, carriage return or line feed is added to the field as it is, no
\* character ends the field or the record, and the parser leaves the quotes
\* exactly at a single, undoubled quote.
C7_QuotedContentIsLiteral ==
    [][(LoopStep /\ inQuotes) =>
        /\ currentRecord' = currentRecord
        /\ records' = records
        /\ (char = "\"" /\ nextChar = "\"") =>
              currentField' = currentField \o "\"" /\ i' = i + 2 /\ inQuotes'
        /\ char \in {",", "\r", "\n"} =>
              currentField' = currentField \o char /\ i' = i + 1 /\ inQuotes'
        /\ ~inQuotes' <=> (char = "\"" /\ nextChar # "\"")]_vars

\* C7 witness: inside quotes, a doubled quote, a comma, a carriage return and
\* a line feed have all been taken into the one field
C7_Witness ==
    /\ cpc = "scan"
    /\ inQuotes
    /\ currentField = "\",\r\n"
    /\ currentRecord = <<>>
    /\ records = <<>>

\* the records after the record fullRecord is completed
RecordsAfterEnd == IF SomeNonBlank(fullRecord) THEN Append(records, fullRecord) ELSE records

\* C8: outside quotes a carriage return followed by a line feed is skipped
\* (the line feed then ends the record), a line feed or a lone carriage return
\* ends the record (the record is complete and, unless blank, emitted, and a
\* new record starts), and at the end of the input the last field and record
\* are completed and emitted the same way without a terminator.
C8_RecordTerminators ==
    [][/\ (LoopStep /\ ~inQuotes /\ char = "\r" /\ nextChar = "\n") =>
              /\ i' = i + 1
              /\ UNCHANGED <<inQuotes, currentField, currentRecord, records>>
       /\ (LoopStep /\ ~inQuotes
             /\ (char = "\n" \/ (char = "\r" /\ nextChar # "\n"))) =>
              /\ i' = i + 1
              /\ records' = RecordsAfterEnd
              /\ currentRecord' = <<>>
              /\ currentField' = ""
              /\ ~inQuotes'
       /\ (cpc = "scan" /\ cpc' = "records") =>
              /\ i >= Len(csvText)
              /\ records' = RecordsAfterEnd]_vars

\* C8 witness: a line feed, a carriage return and line feed pair and the end
\* of the input have each ended one record
C8_Witness ==
    /\ cpc = "records"
    /\ csvText = "a,a,a\na\r\na"
    /\ records = <<<<"a", "a", "a">>, <<"a">>, <<"a">>>>

\* the value has a comma, a quote or a newline in it
HasSpecial(value) ==
    \E k \in 1..Len(value) : SubSeq(value, k, k) \in {",", "\"", "\n", "\r"}

\* C9 as stated: a quoted field value with a comma, a quote or a newline in it
\* parses back to one record holding the value.
C9_RoundTripAnyValue ==
    (cpc = "records" /\ encoded /\ HasSpecial(fieldValue)) =>
        records = <<<<fieldValue>>>>

\* C9 amended: a quoted field value with a comma, a quote or a newline in it
\* and a character that is not white space parses back to one record holding
\* the value; a value of white space alone parses to no record.
C9_RoundTripNonBlank ==
    (cpc = "records" /\ encoded /\ HasSpecial(fieldValue)) =>
        IF Truthy(Trim(fieldValue))
        THEN records = <<<<fieldValue>>>>
        ELSE records = <<>>

\* C9 witness: a value with a comma, a quote and a line feed came back
C9_Witness ==
    /\ cpc = "records"
    /\ encoded
    /\ fieldValue = "a,\"\n"
    /\ csvText = "\"a,\"\"\n\""
    /\ records = <<<<"a,\"\n">>>>

\* C10: no emitted record is blank (all fields empty or white space), and
\* every row parseCsv returns is built from a record that is not blank.
C10_NoBlankRecord ==
    /\ \A k \in 1..Len(records) : SomeNonBlank(records[k])
    /\ cpc = "done" =>
          IF Len(records) < 2 \/ HeaderIndex(records) < 0
          THEN rows = <<>>
          ELSE LET kept == DataRowIndices(records, HeaderIndex(records) + 1)
               IN  /\ Len(rows) = Len(kept)
                   /\ \A k \in 1..Len(kept) : SomeNonBlank(records[kept[k] + 1])

\* C10 witness: blank records before the header, between the header and a
\* data row and at the end of the input were all dropped
C10_Witness ==
    /\ cpc = "done"
    /\ csvText = " ,\na,a,a\n\na,a\n "
    /\ records = <<<<"a", "a", "a">>, <<"a", "a">>>>
    /\ Len(rows) = 1

(***************************************************************************)
(* Normalization: parseCsv on the records of a sheet, and                  *)
(* transformToAdsData on the rows it returns.  A sheet is a header row     *)
(* and the data rows that may stand under it.                              *)
(***************************************************************************)
MaxRows == 2

\* n leading records that are no header row
Noise(n) == [k \in 1..n |-> <<"Title Row", "">>]

NoisePrefixes == {Noise(0), <<<<"a">>, <<"b", "c">>>>, Noise(9), Noise(10)}

\* data rows under headers none of which is read as a date
PlainRows ==
    {<<"1", "2", "3">>,
     <<"$1,234.50", " 7 ", "-5">>,
     <<"1", "abc", "0", "Pune">>,
     <<"x", "y">>,
     <<"a", "", "">>,
     <<"", "5", "2", "Pune">>}

\* data rows whose first field is a date text: of the form YYYY-MM-DD or
\* Mon-YY, or one the host's Date does not read
DatedRows ==
    {<<"2025-01-01", "100", "1000">>,
     <<" 2025-01-02 ", "200", "2000">>,
     <<"Nov-25", "$1,234.50", " 7 ">>,
     <<"garbage", "0", "5">>,
     <<"31/12/2025", "-5", "abc">>,
     <<"", "0", "0", "x">>}

Sheets ==
    {[headers |-> h, rows |-> PlainRows] :
        h \in {<<"h1", "h2", "h3">>,
               <<"Campaign", "CTR", "ROI", "City">>,
               <<"ID", "Platform", "Spend">>,
               <<"Spend", "", "Spend", "Brand">>,
               <<"Spend", "Cost", "Campaign", "Ad  Name">>,
               <<"Qty", "Orders", " Revenue ", "Location">>}}
    \cup
    {[headers |-> h, rows |-> DatedRows] :
        h \in {<<"Date", "Spend", "Impressions">>,
               <<"Date", " Month ", "Sales", "GMV">>,
               <<"Month", "Clicks", "Sales", "Item">>,
               <<"Day", "Campaign Name", "Cost">>}}

SeqsUpTo(set, n) == UNION {[1..k -> set] : k \in 0..n}

\* the record lists of the texts of a sheet: leading records, the header
\* row and at most one data row, or the header row and up to MaxRows data rows
SheetRecords(sheet) ==
    {noise \o <<sheet.headers>> \o data :
        noise \in NoisePrefixes, data \in SeqsUpTo(sheet.rows, 1)}
    \cup {<<sheet.headers>> \o data : data \in SeqsUpTo(sheet.rows, MaxRows)}

\* parseCsv has the records of its text; transformToAdsData is to follow
InitRows ==
    /\ csvText = ""
    /\ fieldValue = ""
    /\ encoded = FALSE
    /\ i = 0
    /\ inQuotes = FALSE
    /\ currentField = ""
    /\ currentRecord = <<>>
    /\ \E sheet \in Sheets : records \in SheetRecords(sheet)
    /\ rows = <<>>
    /\ cpc = "records"
    /\ NoRun
    /\ platform \in SourcePlatforms
    /\ dateNow = <<>>
    /\ adsData = <<>>
    /\ tabHeaders = <<>>
    /\ dataType = "none"
    /\ AggIdle

\* transformToAdsData(rows, platform) on the rows parseCsv returned
Transform ==
    /\ cpc = "done"
    /\ \E ns \in Instants(Len(rows)) :
          /\ dateNow' = ns
          /\ adsData' = transformToAdsData(rows, platform, ns)
    /\ cpc' = "transformed"
    /\ UNCHANGED <<csvText, fieldValue, encoded, i, inQuotes, currentField,
                   currentRecord, records, rows, platform, tabHeaders, dataType, runVars,
                   aggVars>>

NextRows == ReturnRows \/ Transform

SpecRows == InitRows /\ [][NextRows]_vars

(***************************************************************************)
(* Header detection, row materialization and normalization: claims C11 to  *)
(* C17, checked under SpecRows.                                            *)
(***************************************************************************)
Range(seq) == {seq[k] : k \in 1..Len(seq)}

\* the positions (1-based) of the records with at least 3 non-blank fields
\* among the first 10
HeaderCandidates ==
    {k \in 1..Len(records) : k <= 10 /\ NonEmptyCount(records[k]) >= 3}

\* the position of the first of them
FirstCandidate == CHOOSE k \in HeaderCandidates : \A j \in HeaderCandidates : k <= j

NonBlankFields(record) == {record[k] : k \in {j \in 1..Len(record) : Trim(record[j]) # ""}}

ExampleRecords == <<<<"a">>, <<"b", "c">>, <<"h1", "h2", "h3">>, <<"1", "2", "3">>>>

\* C11: parseCsv takes as header row the first of the first 10 records that
\* has at least 3 non-blank fields: every row it returns has exactly the
\* non-blank fields of that record as its keys, the rows are no more than the
\* records after it (one for each with at least 2 non-blank fields), and
\* there is no row at all when none of the first 10 records qualifies.  The
\* records [[a],[b,c],[h1,h2,h3],[1,2,3]] give the one row {h1:1,h2:2,h3:3}.
C11_HeaderIsFirstQualifyingRecord ==
    cpc = "done" =>
        /\ HeaderCandidates = {} => rows = <<>>
        /\ HeaderCandidates # {} =>
              /\ Len(rows) <= Len(records) - FirstCandidate
              /\ Len(rows) = Cardinality({k \in (FirstCandidate + 1)..Len(records) :
                                             NonEmptyCount(records[k]) >= 2})
              /\ \A k \in 1..Len(rows) :
                    Range(ObjectKeys(rows[k])) = NonBlankFields(records[FirstCandidate])
        /\ records = ExampleRecords =>
              /\ FirstCandidate = 3
              /\ rows = <<<<[key |-> "h1", value |-> Num(1, 0)],
                            [key |-> "h2", value |-> Num(2, 0)],
                            [key |-> "h3", value |-> Num(3, 0)]>>>>

\* the example of C11 has been parsed: the third record is the header row
\* and the fourth the one data row
C11_Witness ==
    /\ cpc = "done"
    /\ records = ExampleRecords
    /\ Len(rows) = 1
    /\ ObjectKeys(rows[1]) = <<"h1", "h2", "h3">>

\* the records after the header row that become rows, in order
DataRecords ==
    IF HeaderCandidates = {} THEN <<>>
    ELSE SelectSeq(SubSeq(records, FirstCandidate + 1, Len(records)),
                   LAMBDA r : NonEmptyCount(r) >= 2)

\* the field of a record at a position, empty when the record is too short
FieldAt(values, k) == IF k <= Len(values) THEN values[k] ELSE ""

\* row[key]
Lookup(row, key) == (CHOOSE e \in Range(row) : e.key = key).value

DateLike(header) ==
    \/ Includes(ToLowerCase(header), "date")
    \/ ToLowerCase(header) \in {"month", "day"}

Cleaned(value) == RemoveChars(Trim(value), {"₹", "$", ","})

\* what the claim has stored under a header for the field at its position
Expected(header, value) ==
    IF DateLike(header) THEN Str(Trim(value))
    ELSE IF Cleaned(value) # "" /\ IsNumeric(Cleaned(value)) THEN ParseFloat(Cleaned(value))
    ELSE Str(value)

\* the positions of a header row that write a key of the row
Writers(headers) == {k \in 1..Len(headers) : Trim(headers[k]) # ""}

\* C12: in every row parseCsv returns, each header position with non-blank
\* text stores under its header the trimmed string when the header is
\* date-like, the number when the cleaned value is a signed decimal, and
\* otherwise the untrimmed string (empty for a position the record lacks);
\* the row holds what the last position of a header stored.  "₹1,234.50"
\* and "$1,234.50" are stored as 1234.5, and a stored number written back
\* as text is stored as the same number.
C12_StoredValueByHeaderKind ==
    cpc = "done" /\ HeaderCandidates # {} =>
        LET headers == records[FirstCandidate]
        IN  /\ Len(rows) = Len(DataRecords)
            /\ \A j \in 1..Len(rows) : \A k \in Writers(headers) :
                  LET values == DataRecords[j]
                      after == FillRow(<<>>, SubSeq(headers, 1, k), values, 1)
                  IN  /\ Lookup(after, headers[k]) = Expected(headers[k], FieldAt(values, k))
                      /\ (\A l \in Writers(headers) : headers[l] = headers[k] => l <= k)
                            => Lookup(rows[j], headers[k])
                                  = Expected(headers[k], FieldAt(values, k))
                      /\ ~DateLike(headers[k])
                            => /\ CellValue(headers[k], "₹1,234.50") = Num(12345, 1)
                               /\ FieldAt(values, k) = "$1,234.50"
                                     => Lookup(after, headers[k]) = Num(12345, 1)
                      /\ Lookup(rows[j], headers[k]).t = "num"
                            => CellValue(headers[k], JsString(Lookup(rows[j], headers[k])))
                                  = Lookup(rows[j], headers[k])

\* a row with a kept date text, a currency amount stored as 1234.5 and a
\* padded count stored as 7
C12_Witness ==
    /\ cpc = "done"
    /\ records = <<<<"Date", "Spend", "Impressions">>, <<"Nov-25", "$1,234.50", " 7 ">>>>
    /\ rows = <<<<[key |-> "Date", value |-> Str("Nov-25")],
                  [key |-> "Spend", value |-> Num(12345, 1)],
                  [key |-> "Impressions", value |-> Num(7, 0)]>>>>

\* the record transformToAdsData builds from each row, before the filter
Mapped == [k \in 1..Len(rows) |-> AdsDataOf(rows[k], platform, k - 1, dateNow[k])]

\* the positions of the rows whose records are returned, in order
KeptIndices == SelectSeq([k \in 1..Len(rows) |-> k], LAMBDA k : KeepRow(Mapped[k]))

Metrics ==
    {"total_budget_burnt", "total_impressions", "total_clicks", "total_gmv",
     "total_ctr", "total_roi"}

PositiveNumber(value) == value.t = "num" /\ value.m > 0

\* a label that is a non-empty text, or a number other than 0
NonEmptyLabel(value) == IF value.t = "str" THEN value.s # "" ELSE value.m # 0

\* a record as the claim retains it: a positive metric or a campaign label
Retained(record) ==
    \/ \E f \in Metrics : PositiveNumber(record[f])
    \/ NonEmptyLabel(record["campaign_name"])

\* C13: transformToAdsData returns the record built from a row if and only
\* if the record has a positive metric (spend, impressions, clicks, gross
\* value, click-through rate or return-on-spend) or a non-empty campaign
\* label.
C13_RetainedIffMetricOrCampaign ==
    cpc = "transformed" => adsData = SelectSeq(Mapped, Retained)

\* C14: every record transformToAdsData returns carries the platform it was
\* called with.
C14_PlatformIsCallerSupplied ==
    cpc = "transformed" =>
        \A k \in 1..Len(adsData) : adsData[k]["platform"] = Str(platform)

\* C15: the ids of the records one call of transformToAdsData returns are
\* pairwise distinct.
C15_IdsPairwiseDistinct ==
    cpc = "transformed" =>
        \A j, k \in 1..Len(adsData) : adsData[j]["id"] = adsData[k]["id"] => j = k

ExtensionFields ==
    {"city", "area_name", "brand", "total_conversions", "total_a2c", "units_sold"}

\* C16: a record transformToAdsData returns carries every extension field a
\* column of its row resolves to, with the row's value.
C16_ExtensionFieldsPreserved ==
    cpc = "transformed" =>
        \A j \in 1..Len(adsData) :
            LET row == rows[KeptIndices[j]]
            IN  \A k \in 1..Len(row) :
                    normalizeColumnName(row[k].key) \in ExtensionFields =>
                        /\ normalizeColumnName(row[k].key) \in DOMAIN adsData[j]
                        /\ \E l \in k..Len(row) :
                              /\ normalizeColumnName(row[l].key)
                                    = normalizeColumnName(row[k].key)
                              /\ adsData[j][normalizeColumnName(row[k].key)] = row[l].value

\* a text of the form YYYY-MM-DD
IsoForm(s) ==
    /\ Len(s) = 10
    /\ \A k \in {1, 2, 3, 4, 6, 7, 9, 10} : IsDigit(SubSeq(s, k, k))
    /\ SubSeq(s, 5, 5) = "-"
    /\ SubSeq(s, 8, 8) = "-"

DateText(row) ==
    LET dated == {k \in 1..Len(row) : normalizeColumnName(row[k].key) = "metrics_date"}
    IN  IF dated = {} THEN ""
        ELSE JsString(row[CHOOSE k \in dated : \A l \in dated : l <= k].value)

\* the month a Mon-YY text names, 0 when it names none
MonthOf(text) ==
    IF MonthMatch(text) /\ \E m \in 1..12 : monthNames[m] = ToLowerCase(SubSeq(text, 1, 3))
    THEN CHOOSE m \in 1..12 : monthNames[m] = ToLowerCase(SubSeq(text, 1, 3))
    ELSE 0

MaxMetrics == 2

\* the zones of the host: India, UTC, New York in winter
HostZones == {0 - 330, 0, 300}

Metric(date, tag, spend, impressions, clicks, sales) ==
    [date |-> date, platform |-> tag, total_spend |-> spend,
     total_impressions |-> impressions, total_clicks |-> clicks, total_sales |-> sales]

\* 2025-01-04 is a Saturday, 2025-01-05 a Sunday, 2025-01-08 a Wednesday,
\* 2025-02-01 a Saturday
SampleMetrics ==
    {Metric("2025-01-05", "zepto", Num(100, 0), Num(0, 0), Num(0, 0), Num(50, 0)),
     Metric("2025-01-08", "zepto", Num(50, 0), Num(1000, 0), Num(10, 0), Num(100, 0)),
     Metric("2025-01-04", "blinkit", Num(20, 0), Num(400, 0), Num(8, 0), Num(0, 0)),
     Metric("2025-02-01", "blinkit", Num(0 - 30, 0), Num(0, 0), Num(0, 0), Num(5, 0)),
     Metric("2025-01-05", "blinkit", Str("50"), Str(""), Str("n/a"), Str(" 7 ")),
     Metric("", "zepto", Num(5, 0), Num(10, 0), Num(1, 0), Num(0, 0))}

AggFunctions == {"aggregateToWeekly", "aggregateToMonthly", "groupByPlatform"}

InitAgg ==
    /\ CsvIdle
    /\ NormIdle
    /\ entry \in AggFunctions
    /\ url = ""
    /\ sheetId = ""
    /\ pc = "done"
    /\ methodIndex = 0
    /\ patternIndex = 0
    /\ tabs = <<>>
    /\ foundGids = {}
    /\ gid = 0
    /\ tabIndex = 0
    /\ pending = {}
    /\ log = <<>>
    /\ allData = <<>>
    /\ result = [kind |-> "none"]
    /\ settled = "none"
    /\ match = NoMatch
    /\ matchCount = 0
    /\ matchedGids = {}
    /\ fetched = NoData
    /\ dailyMetrics \in SeqsUpTo(SampleMetrics, MaxMetrics)
    /\ timezoneOffset \in HostZones
    /\ metricIndex = 1
    /\ byWeek = <<>>
    /\ buckets = <<>>
    /\ apc = "run"

\* aggregateToWeekly: one iteration of the loop over dailyMetrics
WeekLoop ==
    /\ apc = "run"
    /\ entry = "aggregateToWeekly"
    /\ metricIndex <= Len(dailyMetrics)
    /\ ~WeekKeyThrows(dailyMetrics[metricIndex])
    /\ byWeek' = GroupPush(byWeek, WeekKey(dailyMetrics[metricIndex], timezoneOffset),
                           dailyMetrics[metricIndex])
    /\ metricIndex' = metricIndex + 1
    /\ UNCHANGED <<dailyMetrics, timezoneOffset, buckets, apc, csvVars, runVars, normVars>>

\* aggregateToWeekly: toISOString() throws in the loop, nothing is returned
WeekThrow ==
    /\ apc = "run"
    /\ entry = "aggregateToWeekly"
    /\ metricIndex <= Len(dailyMetrics)
    /\ WeekKeyThrows(dailyMetrics[metricIndex])
    /\ apc' = "threw"
    /\ UNCHANGED <<dailyMetrics, timezoneOffset, metricIndex, byWeek, buckets, csvVars,
                   runVars, normVars>>

\* aggregateToWeekly: the buckets of the weeks, sorted, are returned
WeeklyReturn ==
    /\ apc = "run"
    /\ entry = "aggregateToWeekly"
    /\ metricIndex > Len(dailyMetrics)
    /\ buckets' \in SortedBuckets(byWeek, WeeklyBucket)
    /\ apc' = "done"
    /\ UNCHANGED <<dailyMetrics, timezoneOffset, metricIndex, byWeek, csvVars, runVars,
                   normVars>>

MonthlyReturn ==
    /\ apc = "run"
    /\ entry = "aggregateToMonthly"
    /\ buckets' \in aggregateToMonthly(dailyMetrics, timezoneOffset)
    /\ apc' = "done"
    /\ UNCHANGED <<dailyMetrics, timezoneOffset, metricIndex, byWeek, csvVars, runVars,
                   normVars>>

PlatformReturn ==
    /\ apc = "run"
    /\ entry = "groupByPlatform"
    /\ buckets' = groupByPlatform(dailyMetrics)
    /\ apc' = "done"
    /\ UNCHANGED <<dailyMetrics, timezoneOffset, metricIndex, byWeek, csvVars, runVars,
                   normVars>>

NextAgg == WeekLoop \/ WeekThrow \/ WeeklyReturn \/ MonthlyReturn \/ PlatformReturn

SpecAgg == InitAgg /\ [][NextAgg]_vars

(***************************************************************************)
(* Aggregation: claims C18 to C20, checked under SpecAgg.                  *)
(***************************************************************************)
RECURSIVE SumOf(_)
SumOf(numbers) ==
    IF numbers = <<>> THEN 0 ELSE numbers[1] + SumOf(SubSeq(numbers, 2, Len(numbers)))

\* how often a metric occurs in a list
Occurrences(metric, list) == Cardinality({k \in 1..Len(list) : list[k] = metric})

Weekly == entry = "aggregateToWeekly"

\* the metrics the loop of aggregateToWeekly has been over
Processed == SubSeq(dailyMetrics, 1, metricIndex - 1)

\* C18: aggregateToWeekly puts every record in exactly one weekly bucket (as
\* often as the input has it, under one key), and the totalSpend,
\* totalImpressions, totalClicks and totalSales of the buckets returned add
\* up to the sums over the input records.
C18_WeeklyConservation ==
    Weekly =>
        /\ \A metric \in Range(Processed) :
              /\ Cardinality({k \in 1..Len(byWeek) :
                                 metric \in Range(byWeek[k].metrics)}) = 1
              /\ SumOf([k \in 1..Len(byWeek) |-> Occurrences(metric, byWeek[k].metrics)])
                    = Occurrences(metric, Processed)
        /\ SumOf([k \in 1..Len(byWeek) |-> Len(byWeek[k].metrics)]) = Len(Processed)
        /\ apc = "done" =>
              /\ Len(Processed) = Len(dailyMetrics)
              /\ Len(buckets) = Len(byWeek)
              /\ SumOf([k \in 1..Len(buckets) |-> buckets[k].totalSpend])
                    = SumOf([k \in 1..Len(dailyMetrics) |->
                                NumberOrZero(dailyMetrics[k].total_spend)])
              /\ SumOf([k \in 1..Len(buckets) |-> buckets[k].totalImpressions])
                    = SumOf([k \in 1..Len(dailyMetrics) |->
                                NumberOrZero(dailyMetrics[k].total_impressions)])
              /\ SumOf([k \in 1..Len(buckets) |-> buckets[k].totalClicks])
                    = SumOf([k \in 1..Len(dailyMetrics) |->
                                NumberOrZero(dailyMetrics[k].total_clicks)])
              /\ SumOf([k \in 1..Len(buckets) |-> buckets[k].totalSales])
                    = SumOf([k \in 1..Len(dailyMetrics) |->
                                NumberOrZero(dailyMetrics[k].total_sales)])

\* two records of one week have been summed into one bucket
C18_Witness ==
    /\ Weekly
    /\ apc = "done"
    /\ Len(dailyMetrics) = 2
    /\ dailyMetrics[1].date = "2025-01-05"
    /\ dailyMetrics[2].date = "2025-01-08"
    /\ Len(buckets) = 1
    /\ buckets[1].totalSpend = 150
    /\ buckets[1].totalImpressions = 1000

\* the ratio is the quotient a / b
IsQuotient(ratio, a, b) == ratio.d > 0 /\ ratio.n * b = a * ratio.d

\* the records of the example of C19: spend 100 with sales 50, spend 50
\* with sales 100, in one week
ExampleWeek ==
    /\ Weekly
    /\ timezoneOffset = 0
    /\ Len(dailyMetrics) = 2
    /\ \A k \in 1..2 : dailyMetrics[k].platform = "zepto"
    /\ dailyMetrics[1].date # dailyMetrics[2].date

\* C19 as it stands: in every bucket returned, cpi, ctr and roas are the
\* quotients of the bucket's totals, and 0 when the denominator is 0.
C19_RatiosOfTotalsUnlessZero ==
    apc = "done" =>
        \A k \in 1..Len(buckets) :
            LET b == buckets[k]
            IN  /\ IF b.totalImpressions = 0 THEN b.cpi = Zero /\ b.ctr = Zero
                   ELSE /\ IsQuotient(b.cpi, b.totalSpend, b.totalImpressions)
                        /\ IsQuotient(b.ctr, 100 * b.totalClicks, b.totalImpressions)
                /\ IF b.totalSpend = 0 THEN b.roas = Zero
                   ELSE IsQuotient(b.roas, b.totalSales, b.totalSpend)

\* C19 amended: in every bucket returned, cpi, ctr and roas are the
\* quotients of the bucket's totals when the denominator is positive, and 0
\* when it is 0 or negative; the two records of the example give a weekly
\* roas of 1.
C19_RatiosOfTotalsIfPositive ==
    apc = "done" =>
        /\ \A k \in 1..Len(buckets) :
              LET b == buckets[k]
              IN  /\ IF b.totalImpressions <= 0 THEN b.cpi = Zero /\ b.ctr = Zero
                     ELSE /\ IsQuotient(b.cpi, b.totalSpend, b.totalImpressions)
                          /\ IsQuotient(b.ctr, 100 * b.totalClicks, b.totalImpressions)
                  /\ IF b.totalSpend <= 0 THEN b.roas = Zero
                     ELSE IsQuotient(b.roas, b.totalSales, b.totalSpend)
        /\ ExampleWeek =>
              /\ Len(buckets) = 1
              /\ buckets[1].totalSpend = 150
              /\ buckets[1].totalSales = 150
              /\ buckets[1].roas = [n |-> 1, d |-> 1]

\* the week of the example has been aggregated: its roas is 1, not the
\* mean 1.25 of the daily 0.5 and 2
C19_Witness ==
    /\ apc = "done"
    /\ ExampleWeek
    /\ buckets[1].roas = [n |-> 1, d |-> 1]

\* the day a YYYY-MM-DD text names, in days since 1970-01-01 (a Thursday)
DayNumber(text) ==
    DaysFromCivil(DigitsToNat(SubSeq(text, 1, 4)), DigitsToNat(SubSeq(text, 6, 7)),
                  DigitsToNat(SubSeq(text, 9, 10)))

IsSunday(day) == (day + 4) % 7 = 0

\* C20: the weekStart of the bucket that holds a daily metric is the Sunday
\* on or before the metric's date, and its weekEnd is 6 days after weekStart,
\* so that weekStart <= date <= weekEnd.
C20_WeekStartsOnSundayBefore ==
    Weekly =>
        /\ \A k \in 1..Len(byWeek) : \A j \in 1..Len(byWeek[k].metrics) :
              LET weekStart == DayNumber(byWeek[k].key)
                  date == DayNumber(byWeek[k].metrics[j].date)
              IN  /\ IsSunday(weekStart)
                  /\ weekStart <= date
                  /\ date <= weekStart + 6
        /\ apc = "done" =>
              \A k \in 1..Len(buckets) :
                  /\ \E j \in 1..Len(byWeek) : byWeek[j].key = buckets[k].weekStart
                  /\ DayNumber(buckets[k].weekEnd) = DayNumber(buckets[k].weekStart) + 6

(***************************************************************************)
(* Aggregation: claims C21 and C22, checked under SpecAgg.                 *)
(***************************************************************************)
Monthly == entry = "aggregateToMonthly"

\* the start of a bucket returned: its weekStart, its month
BucketStart(bucket) == IF Weekly THEN bucket.weekStart ELSE bucket.month

\* the key of the bucket of a metric
BucketKey(metric) ==
    IF Weekly THEN WeekKey(metric, timezoneOffset) ELSE MonthKey(metric, timezoneOffset)

\* every record has a date
AllDated == \A k \in 1..Len(dailyMetrics) : ~IsInvalidDate(dailyMetrics[k].date)

C22_AggregationNeverThrows ==
    /\ apc # "threw"
    /\ apc = "done" => Len(buckets) <= Len(dailyMetrics)

(***************************************************************************)
(* detectDataType on the headers of a tab, and claim C23, checked under    *)
(* SpecDetect.                                                             *)
(***************************************************************************)
MaxHeaders == 3

\* headers of ads sheets, of sales sheets, of both and of neither
SampleHeaders ==
    {"impressions", "clicks", "spend", "campaign", "order_id", "sku", "quantity",
     "Total Spends", "SKU", "City"}

InitDetect ==
    /\ CsvIdle
    /\ NoRun
    /\ AggIdle
    /\ platform = ""
    /\ dateNow = <<>>
    /\ adsData = <<>>
    /\ tabHeaders \in SeqsUpTo(SampleHeaders, MaxHeaders)
    /\ dataType = "none"

Detect ==
    /\ dataType = "none"
    /\ entry = "parseCsv"
    /\ cpc = "done"
    /\ dataType' = detectDataType(tabHeaders)
    /\ UNCHANGED <<platform, dateNow, adsData, tabHeaders, csvVars, runVars, aggVars>>

NextDetect == Detect

SpecDetect == InitDetect /\ [][NextDetect]_vars

\* the indicators of a list that occur in a header, whatever the case of
\* its letters
Occurring(indicators, headers) ==
    {indicators[k] : k \in {j \in 1..Len(indicators) :
        \E h \in 1..Len(headers) : Includes(ToLowerCase(headers[h]), indicators[j])}}

Reversed(list) == [k \in 1..Len(list) |-> list[Len(list) + 1 - k]]

RECURSIVE ToUpperCase(_)
ToUpperCase(s) ==
    IF s = "" THEN "" ELSE UpperChar(CharAt(s, 0)) \o ToUpperCase(SubSeq(s, 2, Len(s)))

\* C23: detectDataType returns "sales" only when more sales indicators than
\* ads indicators occur as a case-insensitive substring of a header, and
\* "ads" on a tie (the empty list included) and on an ads majority;
\* [impressions, clicks, spend, campaign] is "ads" and [order_id, sku,
\* quantity] is "sales"; the order of the headers and the case of their
\* letters do not change the result.
C23_SalesOnlyOnStrictMajority ==
    dataType # "none" =>
        /\ dataType = (IF Cardinality(Occurring(salesIndicators, tabHeaders))
                            > Cardinality(Occurring(adsIndicators, tabHeaders))
                       THEN "sales" ELSE "ads")
        /\ tabHeaders = <<>> => dataType = "ads"
        /\ detectDataType(<<"impressions", "clicks", "spend", "campaign">>) = "ads"
        /\ tabHeaders = <<"order_id", "sku", "quantity">> => dataType = "sales"
        /\ detectDataType(Reversed(tabHeaders)) = dataType
        /\ detectDataType([k \in 1..Len(tabHeaders) |-> ToUpperCase(tabHeaders[k])]) = dataType

\* a tie has been resolved: one ads indicator and one sales indicator occur
C23_Witness ==
    /\ tabHeaders = <<"SKU", "clicks">>
    /\ dataType = "ads"

(***************************************************************************)
(* Tab discovery: claims C24 to C27, checked under Spec.                   *)
(***************************************************************************)
\* the gids the probe loop goes over
ProbeRange == {ToString(g) : g \in 0..LastProbeGid}

\* the data fetch that has settled brought at least one row
Hit(data) == ~data.threw /\ Len(data.rows) >= 1

\* what the probe loop does, whenever it is entered: it goes from gid 0 to
\* gid 20, passes by a gid that is found, fetches the data of every other
\* one, adds the tab of the gid, named Sheet N for the N-th tab of the list,
\* exactly when the fetch brings at least one row, and adds nothing when the
\* fetch fails or brings no row
ProbeLoop ==
    /\ [](IsLib => \A k \in 1..Len(log) :
                      log[k].site = "probe" => log[k].id \in ProbeRange)
    /\ [][IsLib =>
            /\ ProbeStartStep => gid' = 0
            /\ pc = "probe" /\ gid <= LastProbeGid =>
                  IF ToString(gid) \in foundGids
                  THEN pc' = "probe" /\ gid' = gid + 1 /\ log' = log /\ tabs' = tabs
                  ELSE /\ pc' = "probeWait"
                       /\ gid' = gid
                       /\ log' = Append(log, Event("data", ToString(gid), "probe"))
                       /\ tabs' = tabs
            /\ pc = "probe" /\ gid > LastProbeGid => pc' = "hydrate" /\ tabs' = tabs
            /\ pc = "probeWait" =>
                  /\ pc' = "probe"
                  /\ gid' = gid + 1
                  /\ IF Hit(fetched')
                     THEN /\ tabs' = Append(tabs,
                                  [name |-> "Sheet " \o ToString(Len(tabs) + 1),
                                   gid |-> ToString(gid),
                                   rowCount |-> Len(fetched'.rows),
                                   headers |-> ObjectKeys(fetched'.rows[1])])
                          /\ foundGids' = foundGids \cup {ToString(gid)}
                     ELSE tabs' = tabs /\ foundGids' = foundGids]_vars

\* C24 as it stands: fetchSheetTabs enters the probe of the gids 0 to 20 only
\* when the listing strategies have yielded no tab at all, and the probe
\* adds a gid, named Sheet N, if and only if its fetch brings a row.
C24_ProbeOnlyWhenNothingListed ==
    /\ [][IsLib /\ ProbeStartStep => Len(tabs) = 0]_vars
    /\ ProbeLoop

\* C24 amended: fetchSheetTabs enters the probe of the gids 0 to 20 exactly
\* when the listing strategies have yielded at most one tab; the probe passes
\* by the gid of a listed tab, and adds any other gid, named Sheet N for the
\* N-th tab of the list, if and only if its fetch brings at least one row; a
\* probe that fails or brings no row adds nothing.
C24_ProbeWhenAtMostOneListed ==
    /\ [][IsLib /\ pc = "probeGate" =>
             IF Len(tabs) <= 1 THEN pc' = "probe" ELSE pc' = "hydrate" /\ gid' = gid]_vars
    /\ ProbeLoop

\* one tab was listed, the probe has passed by its gid and added two more
C24_Witness ==
    /\ entry = "fetchSheetTabs"
    /\ pc = "hydrate"
    /\ gid = LastProbeGid + 1
    /\ Len(tabs) = 3
    /\ tabs[1].gid = "0" /\ tabs[1].name = "Sales"
    /\ tabs[2].gid = "7" /\ tabs[2].name = "Sheet 2"
    /\ tabs[3].gid = "20" /\ tabs[3].name = "Sheet 3"
    /\ \A k \in 1..Len(log) : log[k].site = "probe" => log[k].id # "0"

\* the positions of the log at which a step of the run issued a data fetch
FetchesOf(site) == {k \in 1..Len(log) : log[k] \in [kind : {"data"}, id : STRING, site : {site}]}

\* the position of the tab of a gid in the list
TabPosition(g) == CHOOSE k \in 1..Len(tabs) : tabs[k].gid = g

\* the gids of the tabs the listing pages named: the probe made the others
ListedGids == GidsOf(tabs) \ {log[k].id : k \in FetchesOf("probe")}

\* C25: in fetchSheetTabs and fetchDataFromSource at most one fetch is
\* outstanding at any time, and a fetch is issued only when none is
\* outstanding; the metadata loop issues exactly one fetch for every tab that
\* lacks its metadata (the tabs the listing named), in the order of the list.
C25_OneFetchAtATime ==
    /\ [](entry \in {"fetchSheetTabs", "validateSheetUrl", "fetchDataFromSource"} =>
            /\ Cardinality(pending) <= 1
            /\ pc \in {"page", "probeWait", "hydrateWait", "defaultWait", "sourceWait"}
                  <=> pending # {}
            /\ IsLib /\ pc \in {"hydrate", "hydrateWait", "default"} =>
                  /\ \A k \in FetchesOf("hydrate") : log[k].id \in ListedGids
                  /\ \A j, k \in FetchesOf("hydrate") :
                        j < k => TabPosition(log[j].id) < TabPosition(log[k].id)
                  /\ pc = "default" =>
                        {log[k].id : k \in FetchesOf("hydrate")} = ListedGids)
    /\ [][(entry \in {"fetchSheetTabs", "validateSheetUrl", "fetchDataFromSource"}
              /\ pending' # pending /\ pending' # {})
             => (pending = {} /\ Cardinality(pending') = 1)]_vars

\* two listed tabs have had their metadata fetched, one after the other
C25_Witness ==
    /\ entry = "fetchSheetTabs"
    /\ pc = "default"
    /\ Len(tabs) = 2
    /\ tabs[1].gid = "25"
    /\ tabs[2].gid = "0"
    /\ Len(log) >= 2
    /\ log[Len(log) - 1] = Event("data", "25", "hydrate")
    /\ log[Len(log)] = Event("data", "0", "hydrate")
    /\ pending = {}

\* the positions of the log at which a data fetch was issued
DataFetches == {k \in 1..Len(log) : log[k].kind = "data"}

\* the step issues a data fetch
DataFetchStep == Len(log') = Len(log) + 1 /\ log'[Len(log')].kind = "data"

\* C26: in a run of fetchSheetTabs no two data fetches are for the same gid
\* (and the default view is fetched at most once): the probe passes by a gid
\* that is found, a tab the probe adds has rowCount >= 1 and headers and so
\* is passed by in the metadata loop, and the default view is fetched only
\* when the list is empty after the metadata loop.
C26_OneDataFetchPerGid ==
    /\ [](IsLib =>
            /\ \A j, k \in DataFetches : log[j].id = log[k].id => j = k
            /\ \A k \in DataFetches :
                  /\ log[k].site \in {"probe", "hydrate", "default"}
                  /\ log[k].site = "default" <=> log[k].id = "")
    /\ [][IsLib =>
            /\ pc = "probe" /\ ToString(gid) \in foundGids => ~DataFetchStep
            /\ pc = "probeWait" /\ Len(tabs') > Len(tabs) =>
                  /\ tabs'[Len(tabs')].rowCount >= 1
                  /\ tabs'[Len(tabs')].headers # <<>>
            /\ pc = "hydrate" /\ tabIndex <= Len(tabs)
                  /\ (\E k \in FetchesOf("probe") : log[k].id = tabs[tabIndex].gid)
                  => ~DataFetchStep
            /\ DataFetchStep /\ log'[Len(log')].site = "default" =>
                  /\ pc = "default"
                  /\ tabs = <<>>
                  /\ tabIndex > Len(tabs)]_vars

\* a tab the probe added has been passed by in the metadata loop, and the
\* listed tab has had its one fetch there
C26_Witness ==
    /\ entry = "fetchSheetTabs"
    /\ pc = "default"
    /\ Len(tabs) = 2
    /\ tabs[1].gid = "0"
    /\ tabs[2].gid = "7"
    /\ Cardinality({k \in DataFetches : log[k].id = "7"}) = 1
    /\ Event("data", "7", "probe") \in Range(log)
    /\ Event("data", "0", "hydrate") \in Range(log)
    /\ Event("data", "0", "probe") \notin Range(log)

\* every step of the run that can be taken is taken in the end: the code runs
\* on, and every fetch that is outstanding settles
SpecFair == Init /\ [][Next]_vars /\ WF_vars(Next)

\* the positions of the log at which a listing page was fetched
PageFetches == {k \in 1..Len(log) : log[k].kind = "page"}

\* C27: when every fetch settles in the end, every run of fetchSheetTabs
\* returns its list and every call of validateSheetUrl returns its result;
\* a run fetches at most 2 listing pages, at most 21 gids in the probe, at
\* most one time the data of every listed tab in the metadata loop, and at
\* most one time the default view.
C27_EveryRunReturns ==
    /\ [](IsLib =>
            /\ Cardinality(PageFetches) <= 2
            /\ Cardinality(FetchesOf("probe")) <= LastProbeGid + 1
            /\ Cardinality(FetchesOf("hydrate")) <= Cardinality(ListedGids)
            /\ Cardinality(FetchesOf("default")) <= 1
            /\ Len(log) = Cardinality(PageFetches) + Cardinality(FetchesOf("probe"))
                             + Cardinality(FetchesOf("hydrate"))
                             + Cardinality(FetchesOf("default")))
    /\ (entry = "fetchSheetTabs") ~> (pc = "done" /\ result.kind = "tabs")
    /\ (entry = "validateSheetUrl") ~> (pc = "done" /\ result.kind = "validation")

\* a run has returned after 2 page fetches, 21 probes and the default fetch
C27_Witness ==
    /\ entry = "fetchSheetTabs"
    /\ pc = "done"
    /\ result.kind = "tabs"
    /\ Cardinality(PageFetches) = 2
    /\ Cardinality(FetchesOf("probe")) = LastProbeGid + 1
    /\ Cardinality(FetchesOf("default")) = 1

(***************************************************************************)
(* parseCsv: claims C28 and C29, checked under SpecRows.                   *)
(***************************************************************************)
\* parseCsv has returned its rows
Returned == cpc = "done"

\* the records that follow the header row
AfterHeader ==
    IF HeaderCandidates = {} THEN <<>>
    ELSE SubSeq(records, FirstCandidate + 1, Len(records))

\* C28 as stated: parseCsv returns no row whenever no header row is found or
\* fewer than 2 records follow the header row.
C28_EmptyOnFewerThanTwoDataRecords ==
    Returned /\ (HeaderCandidates = {} \/ Len(AfterHeader) < 2) => rows = <<>>

\* C28: parseCsv returns no row whenever none of the first 10 records
\* qualifies as the header row or the text has fewer than 2 records in all,
\* the header row included; a header row followed by one record with at
\* least 2 non-blank fields gives one row.
C28_EmptyOnNoHeaderOrFewerThanTwoRecords ==
    Returned =>
        /\ (HeaderCandidates = {} \/ Len(records) < 2) => rows = <<>>
        /\ (HeaderCandidates # {} /\ Len(AfterHeader) = 1
              /\ NonEmptyCount(AfterHeader[1]) >= 2) => Len(rows) = 1

\* parseCsv has returned no row for a text of 12 records none of whose
\* first 10 qualifies as the header row
C28_Witness ==
    /\ Returned
    /\ HeaderCandidates = {}
    /\ Len(records) = 12
    /\ NonEmptyCount(records[11]) >= 3
    /\ NonEmptyCount(records[12]) >= 2
    /\ rows = <<>>

BlankHeaderRecords == <<<<"Spend", "", "Spend", "Brand">>, <<"1", "2", "3">>>>

\* C29 as stated: every row parseCsv returns holds at least 2 non-blank
\* values under its headers.
C29_RowsHoldTwoNonBlankValues ==
    Returned => \A j \in 1..Len(rows) : NonBlankValueCount(rows[j]) >= 2

\* C29: parseCsv drops a record after the header row exactly when the
\* record itself has fewer than 2 non-blank fields, counted at every
\* position before materialization: the rows are the materializations of
\* the records with at least 2 non-blank fields, in order, and a record with
\* fewer gives no row.  The count is not one of stored values: under the
\* header row [Spend, "", Spend, Brand] the record [1, 2, 3] is kept and its
\* row {Spend: 3, Brand: ""} holds one non-blank value.
C29_DroppedByRawFieldCount ==
    Returned /\ HeaderCandidates # {} =>
        LET headers == records[FirstCandidate]
            after == AfterHeader
            kept == DataRecords
        IN  /\ Len(rows) = Len(kept)
            /\ \A j \in 1..Len(rows) :
                  /\ rows[j] = FillRow(<<>>, headers, kept[j], 1)
                  /\ NonEmptyCount(kept[j]) >= 2
            /\ (\A k \in 1..Len(after) : NonEmptyCount(after[k]) < 2) => rows = <<>>
            /\ records = BlankHeaderRecords =>
                  /\ rows = <<<<[key |-> "Spend", value |-> Num(3, 0)],
                                [key |-> "Brand", value |-> Str("")]>>>>
                  /\ NonBlankValueCount(rows[1]) = 1

\* of two records after a header row, the one with a single non-blank field
\* has been dropped and the other has become the only row
C29_Witness ==
    /\ Returned
    /\ HeaderCandidates # {}
    /\ Len(AfterHeader) = 2
    /\ \E k \in 1..2 : NonEmptyCount(AfterHeader[k]) < 2
    /\ Len(rows) = 1
    /\ NonBlankValueCount(rows[1]) >= 2

(***************************************************************************)
(* transformToAdsData: claim C30, checked under SpecRows.                  *)
(***************************************************************************)
\* the positions of the columns that resolve to a field, given what each
\* column of the row resolves to
ColumnsOf(resolved, field) == {k \in 1..Len(resolved) : resolved[k] = field}

LastOf(positions) == CHOOSE k \in positions : \A l \in positions : l <= k

\* what the claim has a record hold in a field: the value of the last column
\* of the row that resolves to it, the initial value when there is none; the
\* date read through formatDate when it is not empty
LastWritten(row, resolved, field, initial) ==
    LET columns == ColumnsOf(resolved, field)
        value == IF columns = {} THEN initial ELSE row[LastOf(columns)].value
    IN  IF field = "metrics_date" /\ JsBoolean(value)
        THEN Str(formatDate(JsString(value)))
        ELSE value

\* C30: transformToAdsData resolves a header by lowercasing and trimming it
\* and looking it up in the synonym table, with the text that has each run
\* of whitespace replaced by an underscore as the fallback; each fixed field
\* of a record it returns holds the value of the last column of the row, in
\* column order, that resolves to the field, and its initial value when no
\* column does.
C30_LastWriterWins ==
    cpc = "transformed" =>
        LET kept == KeptIndices
        IN  /\ normalizeColumnName(" Revenue ") = "total_gmv"
            /\ normalizeColumnName("Campaign Name") = "campaign_name"
            /\ normalizeColumnName(" Ad  Group ") = "ad_group"
            /\ \A j \in 1..Len(adsData) : \A k \in 1..Len(rows[kept[j]]) :
                  LET lower == Trim(ToLowerCase(rows[kept[j]][k].key))
                      resolved == normalizeColumnName(rows[kept[j]][k].key)
                  IN  /\ resolved = normalizeColumnName(lower)
                      /\ COLUMN_MAPPINGS(lower) = undefined
                            => resolved = ReplaceWhiteSpace(lower)
            /\ \A j \in 1..Len(adsData) :
                  LET row == rows[kept[j]]
                      initial == NewAdsData(platform, kept[j] - 1, dateNow[kept[j]])
                      resolved == [k \in 1..Len(row) |-> normalizeColumnName(row[k].key)]
                  IN  \A field \in AdsKeys :
                          adsData[j][field]
                             = LastWritten(row, resolved, field, initial[field])

\* a record has been returned for a row whose Spend and Cost columns hold
\* 1 and 2: it holds 2, the value of Cost, the later column; the header
\* "Ad  Name" resolves to no field and leaves the campaign of Campaign
C30_Witness ==
    /\ cpc = "transformed"
    /\ \E j \in 1..Len(adsData) :
          LET row == rows[KeptIndices[j]]
          IN  /\ ObjectKeys(row) = <<"Spend", "Cost", "Campaign", "Ad  Name">>
              /\ row[1].value = Num(1, 0)
              /\ row[2].value = Num(2, 0)
              /\ adsData[j]["total_budget_burnt"] = Num(2, 0)
              /\ adsData[j]["campaign_name"] = Num(3, 0)

=============================================================================
